---- MODULE Spec2Model ----
(***************************************************************************)
(* Model of the style compression / chunking / generation / recombination  *)
(* pipeline of figtree-cli (ai-providers module: countTokens,              *)
(* shouldChunkStyles, chunkStyles, generateCodeFromStyles,                 *)
(* combineChunkedResults).                                                 *)
(*                                                                         *)
(* A text is represented by what the code reads of it.  For the planner    *)
(* that is the length of JSON.stringify(x): every compressed token carries *)
(* the length of its own serialization, and the length of a serialized     *)
(* chunk is computed from the JSON layout of the object literal the code   *)
(* builds (brackets, commas, field names, decimal digits of the counts).   *)
(*                                                                         *)
(* Further specifications over the same variables: AISpec (generateWithAI),*)
(* FetchSpec (fetchFromFigma), RetrySpec (retry), StoreSpec (the writes of *)
(* compressStylesForAI and chunkStyles on a store of objects) and          *)
(* NormalizeSpec (compressStylesForAI as a function of the raw styles).    *)
(***************************************************************************)
EXTENDS Integers, Sequences, FiniteSets, TLC

VARIABLES
    pc,                 \* position of the call being modelled
    styles,             \* the raw style collection (RawStyleCollection)
    compressed,         \* the CompressedStyleSet (result of compressStylesForAI)
    maxTokens,          \* options.maxTokens / the budget argument of a direct call
    format,             \* options.format
    planned,            \* TRUE once chunkStyles has been called
    maxTokensPerChunk,  \* the budget argument chunkStyles was called with
    chunks,             \* const chunks = chunkStyles(...)
    i,                  \* loop index of generateCodeFromStyles (0-based)
    inflight,           \* chunk numbers of the generateText calls not yet settled
    requests,           \* history: chunk numbers of the generateText calls, in issue order
    responses,          \* history: the texts generateText resolved with, in order
    results,            \* const results = []
    raised,             \* the error the generation capability rejected with
    thrown,             \* the error generateCodeFromStyles rejected with
    output,             \* the value generateCodeFromStyles / combineChunkedResults returned
    combinerCalls,      \* number of calls of combineChunkedResults
    log,                \* history: the logger calls, in order
    failure,            \* the error caught where AI generation is tried (generateWithAI)
    offered,            \* number of times the manual-prompt fallback was offered
    answer,             \* the user's answer to the fallback offer
    promptRuns,         \* number of calls of generatePromptMode
    propagated,         \* the error generateWithAI rejected with, towards run()
    attempt,            \* loop counter of fetchFromFigma / retry
    retries,            \* the retries argument of fetchFromFigma
    calls,              \* history: the outcomes of the fetch / fn calls, in order
    waits,              \* history: the delays waited between attempts, in order
    options,            \* the options argument of retry
    delay,              \* let delay of retry
    lastError,          \* let lastError of retry
    heap,               \* the object store: every object and array, by address
    made,               \* history: the calls made on the raw collection, with the address each returned
    frame               \* the local variables of the call that is running on the store

vars == <<pc, styles, compressed, maxTokens, format, planned, maxTokensPerChunk, chunks, i,
          inflight, requests, responses, results, raised, thrown, output, combinerCalls,
          log,
          failure,
          offered,
          answer,
          promptRuns,
          propagated,
          attempt,
          retries,
          calls,
          waits,
          options,
          delay,
          lastError,
          heap,
          made,
          frame>>

(***************************************************************************)
(* Bounds of the model.                                                    *)
(***************************************************************************)
MaxItems == 4       \* tokens in a compressed set, all categories together

\* serialized lengths (characters) a compressed token may have
ItemLens == {24, 60, 200}

\* token budgets tried (maxTokensPerChunk of a direct call, options.maxTokens)
Budgets == {22, 30, 45, 70}

\* JSON.stringify(styles).length of the raw input, as recorded in the summary
OrigSizes == {980, 1240}

CategorySet == {"colors", "typography", "effects", "spacing"}

\* const categories = ['colors', 'typography', 'effects', 'spacing']
categories == <<"colors", "typography", "effects", "spacing">>

(***************************************************************************)
(* Token estimator and JSON lengths.                                       *)
(***************************************************************************)
\* Math.floor in place of Math.ceil
countTokensFloor(textLength) == textLength \div 4

\* Math.ceil(text.length / 4), the text given by its length
countTokens(textLength) == (textLength + 3) \div 4

\* number of characters of a non-negative integer printed in decimal
RECURSIVE Digits(_)
Digits(n) == IF n < 10 THEN 1 ELSE 1 + Digits(n \div 10)

RECURSIVE SumLen(_)
SumLen(items) == IF items = <<>> THEN 0 ELSE Head(items).len + SumLen(Tail(items))

\* characters between the brackets of a serialized array: the items and their commas
ArrayBodyLen(items) ==
    IF Len(items) = 0 THEN 0 ELSE SumLen(items) + (Len(items) - 1)

\* length of {"colors":[],"typography":[],"effects":[],"spacing":[]}
EmptyChunkLen == 55

\* length of ,"summary":{"totalColors":N,"totalTypography":N,"totalEffects":N,
\* "totalSpacing":N,"chunkNumber":N} or the same with "originalFileSize":N
SummaryLen(s) ==
    LET counts == Digits(s.totalColors) + Digits(s.totalTypography)
                  + Digits(s.totalEffects) + Digits(s.totalSpacing)
    IN  IF "chunkNumber" \in DOMAIN s
        THEN 88 + counts + Digits(s.chunkNumber)
        ELSE 93 + counts + Digits(s.originalFileSize)

\* JSON.stringify(obj).length for a compressed set, a working chunk or a chunk
StringifyLen(obj) ==
    EmptyChunkLen
    + ArrayBodyLen(obj.colors) + ArrayBodyLen(obj.typography)
    + ArrayBodyLen(obj.effects) + ArrayBodyLen(obj.spacing)
    + (IF "summary" \in DOMAIN obj THEN SummaryLen(obj.summary) ELSE 0)

(***************************************************************************)
(* Chunk planner.                                                          *)
(***************************************************************************)

\* shouldChunkStyles with the comparison not strict
shouldChunkStylesGe(compressedStyles, maxTok) ==
    countTokens(StringifyLen(compressedStyles)) >= maxTok

\* estimatedTokens > maxTokens
shouldChunkStyles(compressedStyles, maxTok) ==
    countTokens(StringifyLen(compressedStyles)) > maxTok

\* let currentChunk = { colors: [], typography: [], effects: [], spacing: [] }
EmptyChunk ==
    [colors |-> <<>>, typography |-> <<>>, effects |-> <<>>, spacing |-> <<>>]

\* the summary numbering the chunks from 0
WithSummaryZeroBased(chunk, out) ==
    [colors |-> chunk.colors, typography |-> chunk.typography,
     effects |-> chunk.effects, spacing |-> chunk.spacing,
     summary |-> [totalColors |-> Len(chunk.colors),
                  totalTypography |-> Len(chunk.typography),
                  totalEffects |-> Len(chunk.effects),
                  totalSpacing |-> Len(chunk.spacing),
                  chunkNumber |-> Len(out)]]

\* currentChunk.summary = { totalColors: ..., chunkNumber: chunks.length + 1 }
WithSummary(chunk, out) ==
    [colors |-> chunk.colors, typography |-> chunk.typography,
     effects |-> chunk.effects, spacing |-> chunk.spacing,
     summary |-> [totalColors |-> Len(chunk.colors),
                  totalTypography |-> Len(chunk.typography),
                  totalEffects |-> Len(chunk.effects),
                  totalSpacing |-> Len(chunk.spacing),
                  chunkNumber |-> Len(out) + 1]]

\* the overflow test applied to the pushed item instead of the working chunk
TooLargeItemOnly(chunk, item, maxTok) ==
    countTokens(item.len) > maxTok

\* if (countTokens(JSON.stringify(currentChunk)) > maxTokensPerChunk),
\* currentChunk being the working chunk with the item just pushed
TooLarge(chunk, item, maxTok) ==
    countTokens(StringifyLen(chunk)) > maxTok

\* PushItem starting the new chunk empty, the popped item not carried over
PushItemDropping(st, category, item, maxTok) ==
    LET pushed == [st.cur EXCEPT ![category] = Append(@, item)]
    IN  IF TooLarge(pushed, item, maxTok)
        THEN [cur |-> EmptyChunk, out |-> Append(st.out, WithSummary(st.cur, st.out))]
        ELSE [cur |-> pushed, out |-> st.out]

\* one iteration of the inner loop: push, re-estimate, and on overflow pop,
\* finalize the working chunk and start a new one holding the item
PushItem(st, category, item, maxTok) ==
    LET pushed == [st.cur EXCEPT ![category] = Append(@, item)]
    IN  IF TooLarge(pushed, item, maxTok)
        THEN [cur |-> [EmptyChunk EXCEPT ![category] = <<item>>],
              out |-> Append(st.out, WithSummary(st.cur, st.out))]
        ELSE [cur |-> pushed, out |-> st.out]

\* for (const item of items)
RECURSIVE ChunkItems(_, _, _, _)
ChunkItems(st, category, items, maxTok) ==
    IF items = <<>> THEN st
    ELSE ChunkItems(PushItem(st, category, Head(items), maxTok),
                    category, Tail(items), maxTok)

\* for (const category of categories)
RECURSIVE ChunkCategories(_, _, _, _)
ChunkCategories(st, cats, set, maxTok) ==
    IF cats = <<>> THEN st
    ELSE ChunkCategories(ChunkItems(st, Head(cats), set[Head(cats)], maxTok),
                         Tail(cats), set, maxTok)

\* chunkStyles(styles, maxTokensPerChunk), given the compressed set that its first
\* statement, compressStylesForAI(styles), computes
chunkStyles(set, maxTok) ==
    IF ~shouldChunkStyles(set, maxTok)
    THEN <<set>>
    ELSE LET st == ChunkCategories([cur |-> EmptyChunk, out |-> <<>>],
                                   categories, set, maxTok)
         IN  IF \E c \in CategorySet : Len(st.cur[c]) > 0
             THEN Append(st.out, WithSummary(st.cur, st.out))
             ELSE st.out

(***************************************************************************)
(* Inputs.                                                                 *)
(***************************************************************************)
SeqsUpTo(S, n) == UNION {[1..k -> S] : k \in 0..n}

CatIndex(c) == CHOOSE k \in 1..4 : categories[k] = c

\* token lists: a flat list of (category, length), grouped in category order
FlatInputs ==
    {f \in SeqsUpTo(CategorySet \X ItemLens, MaxItems) :
        \A k \in 1..(Len(f) - 1) : CatIndex(f[k][1]) <= CatIndex(f[k + 1][1])}

RECURSIVE TokensOf(_, _, _)
TokensOf(f, c, k) ==
    IF f = <<>> THEN <<>>
    ELSE IF Head(f)[1] = c
         THEN <<[id |-> <<c, k>>, len |-> Head(f)[2]]>> \o TokensOf(Tail(f), c, k + 1)
         ELSE TokensOf(Tail(f), c, k)

\* the compressed set with these tokens, with the summary compressStylesForAI adds
CompressedOf(f, orig) ==
    LET col == TokensOf(f, "colors", 1)
        typ == TokensOf(f, "typography", 1)
        eff == TokensOf(f, "effects", 1)
        spa == TokensOf(f, "spacing", 1)
    IN  [colors |-> col, typography |-> typ, effects |-> eff, spacing |-> spa,
         summary |-> [totalColors |-> Len(col), totalTypography |-> Len(typ),
                      totalEffects |-> Len(eff), totalSpacing |-> Len(spa),
                      originalFileSize |-> orig]]

CompressedSets == {CompressedOf(f, o) : f \in FlatInputs, o \in OrigSizes}

\* the raw input where it is not modelled: the compressed set stands for it
NoStyles == <<>>

NoError == "none"
NoOutput == <<>>

\* retry called without options: every option takes its default
NoOptions == [defaults |-> TRUE]

\* no call is running on the store
NoCall == <<>>

(***************************************************************************)
(* PlanSpec: chunkStyles applied to every bounded compressed set and       *)
(* budget.                                                                 *)
(***************************************************************************)
PlanInit ==
    /\ pc = "idle"
    /\ styles = NoStyles
    /\ compressed \in CompressedSets
    /\ maxTokens \in Budgets
    /\ format = "css"
    /\ planned = FALSE
    /\ maxTokensPerChunk = 0
    /\ chunks = <<>>
    /\ i = 0
    /\ inflight = {}
    /\ requests = <<>>
    /\ responses = <<>>
    /\ results = <<>>
    /\ raised = NoError
    /\ thrown = NoError
    /\ output = NoOutput
    /\ combinerCalls = 0
    /\ log = <<>>
    /\ failure = NoError
    /\ offered = 0
    /\ answer = "none"
    /\ promptRuns = 0
    /\ propagated = NoError
    /\ attempt = 0
    /\ retries = 0
    /\ calls = <<>>
    /\ waits = <<>>
    /\ options = NoOptions
    /\ delay = 0
    /\ lastError = NoError
    /\ heap = <<>>
    /\ made = <<>>
    /\ frame = NoCall

PlanChunks ==
    /\ pc = "idle"
    /\ pc' = "planned"
    /\ planned' = TRUE
    /\ maxTokensPerChunk' = maxTokens
    /\ chunks' = chunkStyles(compressed, maxTokens)
    /\ UNCHANGED <<styles, compressed, maxTokens, format, i, inflight, requests, responses,
                   results, raised, thrown, output, combinerCalls,
                   log,
                   failure,
                   offered,
                   answer,
                   promptRuns,
                   propagated,
                   attempt,
                   retries,
                   calls,
                   waits,
                   options,
                   delay,
                   lastError,
                   heap,
                   made,
                   frame>>

PlanNext == PlanChunks

PlanSpec == PlanInit /\ [][PlanNext]_vars

(***************************************************************************)
(* Result combiner.  A string is the sequence of its pieces; a generated   *)
(* text is one piece.  JSON.parse and String.match are given by what they  *)
(* return on each of the sample texts.                                     *)
(***************************************************************************)
MaxResults == 3     \* results handed to combineChunkedResults in CombineSpec

TextCss == ":root{--a:1}"
TextCfg == "module.exports = {colors:{}}"
TextObjA == "{\"a\":1}"
TextObjB == "{\"b\":2}"
TextObjAC == "{\"a\":3,\"c\":4}"
TextObjChunk1 == "{\"chunk_1\":5}"

Texts == {TextCss, TextCfg, TextObjA, TextObjB, TextObjAC, TextObjChunk1}

Formats == {"css", "scss", "css-variables", "tailwind", "javascript", "json",
            "android", "swiftui"}

\* a property name; `chunk_${n}` is the prefix with the number n
Key(name) == <<name, 0>>
ChunkKey(n) == <<"chunk_", n>>

Num(n) == [num |-> n]
Raw(text) == [str |-> text]

\* the string that is exactly this text
Str(text) == <<[t |-> "text", s |-> text]>>

\* JSON.parse(result): the parsed object, or a SyntaxError
JSONparse(text) ==
    CASE text = TextObjA -> [ok |-> TRUE, obj |-> (Key("a") :> Num(1))]
      [] text = TextObjB -> [ok |-> TRUE, obj |-> (Key("b") :> Num(2))]
      [] text = TextObjAC ->
            [ok |-> TRUE, obj |-> (Key("a") :> Num(3)) @@ (Key("c") :> Num(4))]
      [] text = TextObjChunk1 -> [ok |-> TRUE, obj |-> (ChunkKey(1) :> Num(5))]
      [] OTHER -> [ok |-> FALSE]

\* r.match(/module\.exports\s*=\s*({[\s\S]*})/): the captured group, or null
MatchConfig(text) ==
    CASE text = TextCfg -> [matched |-> TRUE, group |-> "{colors:{}}"]
      [] OTHER -> [matched |-> FALSE]

\* const header = `/* Design tokens generated from Figma - Combined from N chunks */\n\n`
Header(res) == <<[t |-> "header", n |-> Len(res)]>>

\* the block-comment separator replaced by the line-comment one
SeparatorAlwaysLine == <<[t |-> "sep", s |-> "\n\n// --- Next chunk ---\n\n"]>>

BlockSeparator == <<[t |-> "sep", s |-> "\n\n/* --- Next chunk --- */\n\n"]>>
LineSeparator == <<[t |-> "sep", s |-> "\n\n// --- Next chunk ---\n\n"]>>
ConfigSeparator == <<[t |-> "sep", s |-> ",\n      "]>>

\* join that also puts the separator after the last part
RECURSIVE JoinTrailing(_, _)
JoinTrailing(parts, sep) ==
    IF parts = <<>> THEN <<>>
    ELSE Head(parts) \o sep \o JoinTrailing(Tail(parts), sep)

\* parts.join(sep), parts a list of strings
RECURSIVE Join(_, _)
Join(parts, sep) ==
    IF parts = <<>> THEN <<>>
    ELSE IF Len(parts) = 1 THEN Head(parts)
    ELSE Head(parts) \o sep \o Join(Tail(parts), sep)

Strs(res) == [k \in 1..Len(res) |-> Str(res[k])]

\* assignment in which a key already in the target keeps its value
ObjectAssignKeepFirst(target, source) ==
    [k \in DOMAIN target \cup DOMAIN source |->
        IF k \in DOMAIN target THEN target[k] ELSE source[k]]

\* Object.assign(merged, parsed)
ObjectAssign(target, source) ==
    [k \in DOMAIN target \cup DOMAIN source |->
        IF k \in DOMAIN source THEN source[k] ELSE target[k]]

\* merged[`chunk_${index + 1}`] = result
SetFallback(merged, index, result) ==
    [k \in DOMAIN merged \cup {ChunkKey(index + 1)} |->
        IF k = ChunkKey(index + 1) THEN Raw(result) ELSE merged[k]]

EmptyObject == [k \in {} |-> Num(0)]

\* results.forEach((result, index) => { try parse and assign, catch fallback })
RECURSIVE MergeFrom(_, _, _)
MergeFrom(merged, res, index) ==
    IF index >= Len(res) THEN merged
    ELSE LET parsed == JSONparse(res[index + 1])
         IN  MergeFrom(IF parsed.ok THEN ObjectAssign(merged, parsed.obj)
                       ELSE SetFallback(merged, index, res[index + 1]),
                       res, index + 1)

\* the configs of the tailwind branch: the captured object literal, else the text
Configs(res) ==
    [k \in 1..Len(res) |->
        IF MatchConfig(res[k]).matched
        THEN <<[t |-> "group", s |-> MatchConfig(res[k]).group]>>
        ELSE Str(res[k])]

combineChunkedResults(res, fmt) ==
    CASE fmt \in {"css", "scss", "css-variables"} ->
            Header(res) \o Join(Strs(res), BlockSeparator)
      [] fmt = "tailwind" ->
            Header(res) \o <<[t |-> "configOpen", n |-> Len(res)]>>
            \o Join(Configs(res), ConfigSeparator) \o <<[t |-> "configClose"]>>
      [] fmt = "javascript" ->
            Header(res) \o Join(Strs(res), LineSeparator)
      [] fmt = "json" ->
            <<[t |-> "json", obj |-> MergeFrom(EmptyObject, res, 0)]>>
      [] OTHER ->
            Header(res) \o Join(Strs(res), LineSeparator)

(***************************************************************************)
(* CombineSpec: combineChunkedResults applied to every bounded list of     *)
(* results and every format.                                               *)
(***************************************************************************)
CombineInit ==
    /\ pc = "idle"
    /\ styles = NoStyles
    /\ compressed = CompressedOf(<<>>, 980)
    /\ maxTokens = 0
    /\ format \in Formats
    /\ planned = FALSE
    /\ maxTokensPerChunk = 0
    /\ chunks = <<>>
    /\ i = 0
    /\ inflight = {}
    /\ requests = <<>>
    /\ responses = <<>>
    /\ results \in SeqsUpTo(Texts, MaxResults)
    /\ raised = NoError
    /\ thrown = NoError
    /\ output = NoOutput
    /\ combinerCalls = 0
    /\ log = <<>>
    /\ failure = NoError
    /\ offered = 0
    /\ answer = "none"
    /\ promptRuns = 0
    /\ propagated = NoError
    /\ attempt = 0
    /\ retries = 0
    /\ calls = <<>>
    /\ waits = <<>>
    /\ options = NoOptions
    /\ delay = 0
    /\ lastError = NoError
    /\ heap = <<>>
    /\ made = <<>>
    /\ frame = NoCall

CombineCall ==
    /\ pc = "idle"
    /\ pc' = "done"
    /\ output' = combineChunkedResults(results, format)
    /\ combinerCalls' = combinerCalls + 1
    /\ UNCHANGED <<styles, compressed, maxTokens, format, planned, maxTokensPerChunk, chunks,
                   i, inflight, requests, responses, results, raised, thrown,
                   log,
                   failure,
                   offered,
                   answer,
                   promptRuns,
                   propagated,
                   attempt,
                   retries,
                   calls,
                   waits,
                   options,
                   delay,
                   lastError,
                   heap,
                   made,
                   frame>>

CombineNext == CombineCall

CombineSpec == CombineInit /\ [][CombineNext]_vars

(***************************************************************************)
(* generateCodeFromStyles: the sequential generation loop.                 *)
(***************************************************************************)
MaxGenItems == 2    \* tokens in a compressed set handed to generateCodeFromStyles

\* texts the generation capability resolves with in Spec
GenTexts == {TextCss, TextObjA}

\* provider errors the generation capability rejects with
Errors == {"rate limit exceeded", "context length exceeded"}

GenSets ==
    {CompressedOf(f, o) : f \in {g \in FlatInputs : Len(g) <= MaxGenItems},
                          o \in OrigSizes}

\* maxTokens * 0.8; an integer estimate exceeds the product iff it exceeds its floor
ChunkBudget(maxTok) == (maxTok * 4) \div 5

\* the parts of the chunk prompt that vary: the serialized chunk, the format and
\* "This is chunk N of M"
createChunkPrompt(chunk, fmt, chunkNumber, totalChunks) ==
    [chunk |-> chunk, format |-> fmt, chunkNumber |-> chunkNumber,
     totalChunks |-> totalChunks]

\* the prompt of the unchunked path: the whole compressed set and the format
createPrompt(set, fmt) ==
    [chunk |-> set, format |-> fmt, chunkNumber |-> 0, totalChunks |-> 0]

\* a logger call: its level, its message and the number it prints
LogEntry(level, msg, n) == [level |-> level, msg |-> msg, n |-> n]

\* results.unshift(text)
PushResultFront(res, text) == <<text>> \o res

\* results.push(text)
PushResult(res, text) == Append(res, text)

\* a catch block that throws a new error in place of the one caught
RethrowWrapped(error) == "generation failed"

\* catch (error) { logger.error(...); throw error }
Rethrow(error) == error

Init ==
    /\ pc = "idle"
    /\ styles = NoStyles
    /\ compressed \in GenSets
    /\ maxTokens \in Budgets
    /\ format \in Formats
    /\ planned = FALSE
    /\ maxTokensPerChunk = 0
    /\ chunks = <<>>
    /\ i = 0
    /\ inflight = {}
    /\ requests = <<>>
    /\ responses = <<>>
    /\ results = <<>>
    /\ raised = NoError
    /\ thrown = NoError
    /\ output = NoOutput
    /\ combinerCalls = 0
    /\ log = <<>>
    /\ failure = NoError
    /\ offered = 0
    /\ answer = "none"
    /\ promptRuns = 0
    /\ propagated = NoError
    /\ attempt = 0
    /\ retries = 0
    /\ calls = <<>>
    /\ waits = <<>>
    /\ options = NoOptions
    /\ delay = 0
    /\ lastError = NoError
    /\ heap = <<>>
    /\ made = <<>>
    /\ frame = NoCall

\* createModel(provider, model) throws: unknown provider or missing API key
CreateModelThrows ==
    /\ pc = "idle"
    /\ pc' = "threw"
    /\ thrown' = "Missing API key"
    /\ UNCHANGED <<styles, compressed, maxTokens, format, planned, maxTokensPerChunk, chunks,
                   i, inflight, requests, responses, results, raised, output,
                   combinerCalls,
                   log,
                   failure,
                   offered,
                   answer,
                   promptRuns,
                   propagated,
                   attempt,
                   retries,
                   calls,
                   waits,
                   options,
                   delay,
                   lastError,
                   heap,
                   made,
                   frame>>

\* shouldChunkStyles(compressed, maxTokens) holds: plan the chunks, enter the loop
StartChunked ==
    /\ pc = "idle"
    /\ shouldChunkStyles(compressed, maxTokens)
    /\ planned' = TRUE
    /\ maxTokensPerChunk' = ChunkBudget(maxTokens)
    /\ chunks' = chunkStyles(compressed, ChunkBudget(maxTokens))
    /\ results' = <<>>
    /\ i' = 0
    /\ pc' = "loop"
    /\ log' = log \o <<LogEntry("debug", "Estimated tokens",
                                  countTokens(StringifyLen(compressed))),
                         LogEntry("warn", "File is large, splitting into chunks",
                                  countTokens(StringifyLen(compressed)))>>
    /\ UNCHANGED <<styles, compressed, maxTokens, format, inflight, requests, responses,
                   raised, thrown, output, combinerCalls,
                   failure,
                   offered,
                   answer,
                   promptRuns,
                   propagated,
                   attempt,
                   retries,
                   calls,
                   waits,
                   options,
                   delay,
                   lastError,
                   heap,
                   made,
                   frame>>

\* loop body up to the await: build the prompt of chunks[i], call generateText
IssueChunkRequest ==
    /\ pc = "loop"
    /\ i < Len(chunks)
    /\ requests' = Append(requests,
                          createChunkPrompt(chunks[i + 1], format, i + 1, Len(chunks)))
    /\ inflight' = inflight \cup {i + 1}
    /\ pc' = "await"
    /\ log' = Append(log, LogEntry("progress", "Processing chunk", i + 1))
    /\ UNCHANGED <<styles, compressed, maxTokens, format, planned, maxTokensPerChunk, chunks,
                   i, responses, results, raised, thrown, output, combinerCalls,
                   failure,
                   offered,
                   answer,
                   promptRuns,
                   propagated,
                   attempt,
                   retries,
                   calls,
                   waits,
                   options,
                   delay,
                   lastError,
                   heap,
                   made,
                   frame>>

\* the awaited call resolves: results.push(text), i++
ChunkResolved ==
    /\ pc = "await"
    /\ \E text \in GenTexts :
          /\ responses' = Append(responses, text)
          /\ results' = PushResult(results, text)
    /\ inflight' = inflight \ {i + 1}
    /\ i' = i + 1
    /\ pc' = "loop"
    /\ UNCHANGED <<styles, compressed, maxTokens, format, planned, maxTokensPerChunk, chunks,
                   requests, raised, thrown, output, combinerCalls,
                   log,
                   failure,
                   offered,
                   answer,
                   promptRuns,
                   propagated,
                   attempt,
                   retries,
                   calls,
                   waits,
                   options,
                   delay,
                   lastError,
                   heap,
                   made,
                   frame>>

\* the awaited call rejects: log and rethrow
ChunkRejected ==
    /\ pc = "await"
    /\ \E error \in Errors :
          /\ raised' = error
          /\ thrown' = Rethrow(error)
    /\ inflight' = inflight \ {i + 1}
    /\ pc' = "threw"
    /\ log' = Append(log, LogEntry("error", "Error processing chunk", i + 1))
    /\ UNCHANGED <<styles, compressed, maxTokens, format, planned, maxTokensPerChunk, chunks,
                   i, requests, responses, results, output, combinerCalls,
                   failure,
                   offered,
                   answer,
                   promptRuns,
                   propagated,
                   attempt,
                   retries,
                   calls,
                   waits,
                   options,
                   delay,
                   lastError,
                   heap,
                   made,
                   frame>>

\* the loop is over: return combineChunkedResults(results, format)
CombineChunks ==
    /\ pc = "loop"
    /\ ~(i < Len(chunks))
    /\ output' = combineChunkedResults(results, format)
    /\ combinerCalls' = combinerCalls + 1
    /\ pc' = "done"
    /\ UNCHANGED <<styles, compressed, maxTokens, format, planned, maxTokensPerChunk, chunks,
                   i, inflight, requests, responses, results, raised, thrown,
                   log,
                   failure,
                   offered,
                   answer,
                   promptRuns,
                   propagated,
                   attempt,
                   retries,
                   calls,
                   waits,
                   options,
                   delay,
                   lastError,
                   heap,
                   made,
                   frame>>

\* shouldChunkStyles fails: one request over the whole set
IssueWholeRequest ==
    /\ pc = "idle"
    /\ ~shouldChunkStyles(compressed, maxTokens)
    /\ requests' = Append(requests, createPrompt(compressed, format))
    /\ inflight' = inflight \cup {0}
    /\ pc' = "awaitWhole"
    /\ log' = Append(log, LogEntry("debug", "Estimated tokens",
                                    countTokens(StringifyLen(compressed))))
    /\ UNCHANGED <<styles, compressed, maxTokens, format, planned, maxTokensPerChunk, chunks,
                   i, responses, results, raised, thrown, output, combinerCalls,
                   failure,
                   offered,
                   answer,
                   promptRuns,
                   propagated,
                   attempt,
                   retries,
                   calls,
                   waits,
                   options,
                   delay,
                   lastError,
                   heap,
                   made,
                   frame>>

\* return text
WholeResolved ==
    /\ pc = "awaitWhole"
    /\ \E text \in GenTexts :
          /\ responses' = Append(responses, text)
          /\ output' = Str(text)
    /\ inflight' = inflight \ {0}
    /\ pc' = "done"
    /\ UNCHANGED <<styles, compressed, maxTokens, format, planned, maxTokensPerChunk, chunks,
                   i, requests, results, raised, thrown, combinerCalls,
                   log,
                   failure,
                   offered,
                   answer,
                   promptRuns,
                   propagated,
                   attempt,
                   retries,
                   calls,
                   waits,
                   options,
                   delay,
                   lastError,
                   heap,
                   made,
                   frame>>

\* catch (error) { logger.error(...); throw error }
WholeRejected ==
    /\ pc = "awaitWhole"
    /\ \E error \in Errors :
          /\ raised' = error
          /\ thrown' = Rethrow(error)
    /\ inflight' = inflight \ {0}
    /\ pc' = "threw"
    /\ log' = Append(log, LogEntry("error", "Error generating code", 0))
    /\ UNCHANGED <<styles, compressed, maxTokens, format, planned, maxTokensPerChunk, chunks,
                   i, requests, responses, results, output, combinerCalls,
                   failure,
                   offered,
                   answer,
                   promptRuns,
                   propagated,
                   attempt,
                   retries,
                   calls,
                   waits,
                   options,
                   delay,
                   lastError,
                   heap,
                   made,
                   frame>>

Next ==
    \/ CreateModelThrows
    \/ StartChunked
    \/ IssueChunkRequest
    \/ ChunkResolved
    \/ ChunkRejected
    \/ CombineChunks
    \/ IssueWholeRequest
    \/ WholeResolved
    \/ WholeRejected

Spec == Init /\ [][Next]_vars

(***************************************************************************)
(* generateWithAI: format dispatch, saving, and the manual-prompt          *)
(* fallback.  The text formats run the generation loop above.              *)
(***************************************************************************)
\* the formats chooseCodeFormat answered with in AISpec
AIFormats == {"css", "tailwind", "json"}

AISets == {set \in GenSets : set.summary.originalFileSize = 980}

\* the error of fs.promises.writeFile, rethrown by saveCodeToFile
SaveError == "EACCES: permission denied"

\* the error generatePromptMode rethrows
PromptError == "User force closed the prompt"

\* the object generateObject resolves with
TokenObject == JSONparse(TextObjA).obj

\* the prompt of the structured request: the whole compressed set
createTokenPrompt(set) ==
    [chunk |-> set, format |-> "json", chunkNumber |-> 0, totalChunks |-> 0,
     schema |-> "tokenSchema"]

\* generateObject (with a schema) or generateText
RequestKind(request) == IF "schema" \in DOMAIN request THEN "object" ELSE "text"

StructuredNever(fmt) == FALSE

\* if (format === 'json')
Structured(fmt) == fmt = "json"

\* the branch of the inner catch that reports the error
ErrorReport(message) ==
    CASE message = "Missing API key" -> LogEntry("warn", "API Key Issue", 0)
      [] message = "rate limit exceeded" -> LogEntry("warn", "Rate Limit Issue", 0)
      [] message = "context length exceeded" -> LogEntry("warn", "Token Limit Issue", 0)
      [] OTHER -> LogEntry("error", "Generation error", 0)

FallbackDeclinedRuns(fallback) == TRUE

\* if (fallback) await generatePromptMode(styles)
FallbackRuns(fallback) == fallback = "yes"

loopVars == <<planned, maxTokensPerChunk, chunks, i, results, combinerCalls>>
callVars == <<inflight, requests, responses, raised, thrown, output>>
fallbackVars == <<failure, offered, answer, promptRuns, propagated>>
inputVars == <<styles, compressed, maxTokens, format>>

AIInit ==
    /\ pc = "ai"
    /\ styles = NoStyles
    /\ compressed \in AISets
    /\ maxTokens \in Budgets
    /\ format \in AIFormats
    /\ planned = FALSE
    /\ maxTokensPerChunk = 0
    /\ chunks = <<>>
    /\ i = 0
    /\ inflight = {}
    /\ requests = <<>>
    /\ responses = <<>>
    /\ results = <<>>
    /\ raised = NoError
    /\ thrown = NoError
    /\ output = NoOutput
    /\ combinerCalls = 0
    /\ log = <<>>
    /\ failure = NoError
    /\ offered = 0
    /\ answer = "none"
    /\ promptRuns = 0
    /\ propagated = NoError
    /\ attempt = 0
    /\ retries = 0
    /\ calls = <<>>
    /\ waits = <<>>
    /\ options = NoOptions
    /\ delay = 0
    /\ lastError = NoError
    /\ heap = <<>>
    /\ made = <<>>
    /\ frame = NoCall

\* no provider has an API key: straight to prompt mode
NoProviders ==
    /\ pc = "ai"
    /\ pc' = "promptMode"
    /\ log' = Append(log, LogEntry("warn", "No AI providers configured", 0))
    /\ UNCHANGED <<inputVars, loopVars, callVars, fallbackVars,
                   attempt,
                   retries,
                   calls,
                   waits,
                   options,
                   delay,
                   lastError,
                   heap,
                   made,
                   frame>>

\* a text format: generateCodeFromStyles is called
CallGenerateCode ==
    /\ pc = "ai"
    /\ ~Structured(format)
    /\ pc' = "idle"
    /\ UNCHANGED <<inputVars, loopVars, callVars, fallbackVars, log,
                   attempt,
                   retries,
                   calls,
                   waits,
                   options,
                   delay,
                   lastError,
                   heap,
                   made,
                   frame>>

\* json: generateDesignTokens is called and issues its generateObject request
IssueObjectRequest ==
    /\ pc = "ai"
    /\ Structured(format)
    /\ requests' = Append(requests, createTokenPrompt(compressed))
    /\ inflight' = inflight \cup {0}
    /\ pc' = "awaitObject"
    /\ UNCHANGED <<inputVars, loopVars, fallbackVars, responses, raised, thrown, output,
                   log,
                   attempt,
                   retries,
                   calls,
                   waits,
                   options,
                   delay,
                   lastError,
                   heap,
                   made,
                   frame>>

\* return object
ObjectResolved ==
    /\ pc = "awaitObject"
    /\ output' = <<[t |-> "json", obj |-> TokenObject]>>
    /\ inflight' = inflight \ {0}
    /\ pc' = "done"
    /\ UNCHANGED <<inputVars, loopVars, fallbackVars, requests, responses, raised, thrown,
                   log,
                   attempt,
                   retries,
                   calls,
                   waits,
                   options,
                   delay,
                   lastError,
                   heap,
                   made,
                   frame>>

\* catch (error) { logger.error(...); throw error }
ObjectRejected ==
    /\ pc = "awaitObject"
    /\ \E error \in Errors :
          /\ raised' = error
          /\ thrown' = Rethrow(error)
    /\ inflight' = inflight \ {0}
    /\ log' = Append(log, LogEntry("error", "Error generating tokens", 0))
    /\ pc' = "threw"
    /\ UNCHANGED <<inputVars, loopVars, fallbackVars, requests, responses, output,
                   attempt,
                   retries,
                   calls,
                   waits,
                   options,
                   delay,
                   lastError,
                   heap,
                   made,
                   frame>>

\* saveCodeToFile resolves: success message and preview, generateWithAI returns
SaveSucceeds ==
    /\ pc = "done"
    /\ log' = Append(log, LogEntry("success", "Code generated and saved", 0))
    /\ pc' = "returned"
    /\ UNCHANGED <<inputVars, loopVars, callVars, fallbackVars,
                   attempt,
                   retries,
                   calls,
                   waits,
                   options,
                   delay,
                   lastError,
                   heap,
                   made,
                   frame>>

\* saveCodeToFile rejects: the inner catch reports it and offers the fallback
SaveFails ==
    /\ pc = "done"
    /\ failure' = SaveError
    /\ log' = log \o <<LogEntry("error", "Error saving code to file", 0),
                       ErrorReport(SaveError)>>
    /\ offered' = offered + 1
    /\ pc' = "asking"
    /\ UNCHANGED <<inputVars, loopVars, callVars, answer, promptRuns, propagated,
                   attempt,
                   retries,
                   calls,
                   waits,
                   options,
                   delay,
                   lastError,
                   heap,
                   made,
                   frame>>

\* the generation call rejected: the inner catch reports it and offers the fallback
GenerationFails ==
    /\ pc = "threw"
    /\ failure' = thrown
    /\ log' = Append(log, ErrorReport(thrown))
    /\ offered' = offered + 1
    /\ pc' = "asking"
    /\ UNCHANGED <<inputVars, loopVars, callVars, answer, promptRuns, propagated,
                   attempt,
                   retries,
                   calls,
                   waits,
                   options,
                   delay,
                   lastError,
                   heap,
                   made,
                   frame>>

\* the confirm prompt resolves with the user's answer
FallbackAnswered ==
    /\ pc = "asking"
    /\ \E fallback \in {"yes", "no"} :
          /\ answer' = fallback
          /\ pc' = IF FallbackRuns(fallback) THEN "promptMode" ELSE "returned"
    /\ UNCHANGED <<inputVars, loopVars, callVars, failure, offered, promptRuns,
                   propagated, log,
                   attempt,
                   retries,
                   calls,
                   waits,
                   options,
                   delay,
                   lastError,
                   heap,
                   made,
                   frame>>

\* the confirm prompt rejects: nothing resolves the promise generateWithAI awaits
FallbackPromptClosed ==
    /\ pc = "asking"
    /\ answer' = "closed"
    /\ pc' = "pending"
    /\ UNCHANGED <<inputVars, loopVars, callVars, failure, offered, promptRuns,
                   propagated, log,
                   attempt,
                   retries,
                   calls,
                   waits,
                   options,
                   delay,
                   lastError,
                   heap,
                   made,
                   frame>>

\* generatePromptMode resolves
PromptModeDone ==
    /\ pc = "promptMode"
    /\ promptRuns' = promptRuns + 1
    /\ pc' = "returned"
    /\ UNCHANGED <<inputVars, loopVars, callVars, failure, offered, answer, propagated,
                   log,
                   attempt,
                   retries,
                   calls,
                   waits,
                   options,
                   delay,
                   lastError,
                   heap,
                   made,
                   frame>>

\* generatePromptMode rejects: the outer catch reports it and runs prompt mode again
PromptModeThrows ==
    /\ pc = "promptMode"
    /\ promptRuns' = promptRuns + 1
    /\ log' = log \o <<LogEntry("error", "Prompt generation error", 0),
                       LogEntry("error", "AI generation error", 0)>>
    /\ pc' = "outerCatch"
    /\ UNCHANGED <<inputVars, loopVars, callVars, failure, offered, answer, propagated,
                   attempt,
                   retries,
                   calls,
                   waits,
                   options,
                   delay,
                   lastError,
                   heap,
                   made,
                   frame>>

\* generatePromptMode, called from the outer catch, resolves
OuterPromptModeDone ==
    /\ pc = "outerCatch"
    /\ promptRuns' = promptRuns + 1
    /\ pc' = "returned"
    /\ UNCHANGED <<inputVars, loopVars, callVars, failure, offered, answer, propagated,
                   log,
                   attempt,
                   retries,
                   calls,
                   waits,
                   options,
                   delay,
                   lastError,
                   heap,
                   made,
                   frame>>

\* generatePromptMode, called from the outer catch, rejects: generateWithAI rejects
OuterPromptModeThrows ==
    /\ pc = "outerCatch"
    /\ promptRuns' = promptRuns + 1
    /\ propagated' = PromptError
    /\ log' = Append(log, LogEntry("error", "Prompt generation error", 0))
    /\ pc' = "rejected"
    /\ UNCHANGED <<inputVars, loopVars, callVars, failure, offered, answer,
                   attempt,
                   retries,
                   calls,
                   waits,
                   options,
                   delay,
                   lastError,
                   heap,
                   made,
                   frame>>

AINext ==
    \/ NoProviders
    \/ CallGenerateCode
    \/ StartChunked
    \/ IssueChunkRequest
    \/ ChunkResolved
    \/ ChunkRejected
    \/ CombineChunks
    \/ IssueWholeRequest
    \/ WholeResolved
    \/ WholeRejected
    \/ IssueObjectRequest
    \/ ObjectResolved
    \/ ObjectRejected
    \/ SaveSucceeds
    \/ SaveFails
    \/ GenerationFails
    \/ FallbackAnswered
    \/ FallbackPromptClosed
    \/ PromptModeDone
    \/ PromptModeThrows
    \/ OuterPromptModeDone
    \/ OuterPromptModeThrows

AISpec == AIInit /\ [][AINext]_vars

(***************************************************************************)
(* fetchFromFigma: the request loop of the Figma client.  An error is its  *)
(* message; ErrorName gives the name of the error object that carries it.  *)
(***************************************************************************)
MaxRetries == 3     \* largest retries argument of fetchFromFigma

\* HTTP statuses the API answers with
Statuses == {200, 304, 401, 403, 404, 418, 429, 500, 503}

\* response bodies: a JSON text and a text that is not JSON
Bodies == {TextObjA, TextCss}

\* res.ok
Ok(status) == status >= 200 /\ status <= 299

MissingToken == "Missing FIGMA_TOKEN environment variable"
FetchFailed == "fetch failed"
InvalidUrl == "Failed to parse URL"
Terminated == "terminated"
SyntaxErrorMessage == "Unexpected token : in JSON"
InvalidToken == "Invalid Figma token. Please check your FIGMA_TOKEN in .env file."
AccessDenied == "Access denied. Please check your Figma token permissions."
NotFound == "Resource not found. The file or endpoint may not exist."
RateLimited == "Rate limit exceeded. Please try again later."
ServerError == "Figma server error"
ApiError == "Figma API error"
NetworkUnreachable ==
    "Network error: Unable to connect to Figma API. Please check your internet connection."

\* error.name
ErrorName(error) ==
    CASE error \in {FetchFailed, InvalidUrl, Terminated} -> "TypeError"
      [] error = SyntaxErrorMessage -> "SyntaxError"
      [] error = MissingToken -> "ConfigurationError"
      [] OTHER -> "Error"

\* error.message.includes('fetch')
IncludesFetch(error) == error = FetchFailed

\* every error taken for a network failure
IsAnyError(error) == TRUE

\* error.name === 'TypeError' && error.message.includes('fetch')
IsNetworkFailure(error) == ErrorName(error) = "TypeError" /\ IncludesFetch(error)

\* the last attempt included among those that wait and go round again
NotPastLast(n, limit) == n <= limit

\* attempt < retries
BeforeLast(n, limit) == n < limit

\* the error thrown inside the try for a response that is not ok and not retried
StatusError(status, n, limit) ==
    CASE status = 401 -> InvalidToken
      [] status = 403 -> AccessDenied
      [] status = 404 -> NotFound
      [] status = 429 -> RateLimited
      [] status >= 500 -> ServerError
      [] OTHER -> ApiError

\* the wait, in milliseconds, after a response that is retried; 0 when the response
\* is not retried
RetryWait(status, n, limit) ==
    CASE status = 429 /\ BeforeLast(n, limit) -> 60000
      [] status # 429 /\ status >= 500 /\ BeforeLast(n, limit) -> 5000
      [] OTHER -> 0

\* catch (error): TRUE when the catch block waits and continues
CatchRetries(error, n, limit) == n # limit /\ IsNetworkFailure(error)

\* catch (error): the error the catch block throws
CatchThrows(error, n, limit) ==
    IF n = limit /\ IsNetworkFailure(error) THEN NetworkUnreachable ELSE error

Pending(n) == [attempt |-> n, kind |-> "pending", status |-> 0, body |-> ""]
Rejection(n, error) == [attempt |-> n, kind |-> "rejected", status |-> 0, body |-> error]
Response(n, status, body) ==
    [attempt |-> n, kind |-> "response", status |-> status, body |-> body]

\* the calls history with its last, pending, entry settled
Settle(history, outcome) == [history EXCEPT ![Len(history)] = outcome]

pipelineVars == <<styles, compressed, maxTokens, format, planned, maxTokensPerChunk,
                  chunks, i, inflight, requests, responses, results, raised,
                  combinerCalls, failure, offered, answer, promptRuns, propagated>>
retryVars == <<options, delay, lastError>>

FetchInit ==
    /\ pc = "start"
    /\ styles = NoStyles
    /\ compressed = CompressedOf(<<>>, 980)
    /\ maxTokens = 0
    /\ format = "css"
    /\ planned = FALSE
    /\ maxTokensPerChunk = 0
    /\ chunks = <<>>
    /\ i = 0
    /\ inflight = {}
    /\ requests = <<>>
    /\ responses = <<>>
    /\ results = <<>>
    /\ raised = NoError
    /\ thrown = NoError
    /\ output = NoOutput
    /\ combinerCalls = 0
    /\ log = <<>>
    /\ failure = NoError
    /\ offered = 0
    /\ answer = "none"
    /\ promptRuns = 0
    /\ propagated = NoError
    /\ attempt = 0
    /\ retries \in 0..MaxRetries
    /\ calls = <<>>
    /\ waits = <<>>
    /\ options = NoOptions
    /\ delay = 0
    /\ lastError = NoError
    /\ heap = <<>>
    /\ made = <<>>
    /\ frame = NoCall

\* getFigmaToken() throws before the loop is entered
TokenThrows ==
    /\ pc = "start"
    /\ pc' = "threw"
    /\ thrown' = MissingToken
    /\ UNCHANGED <<pipelineVars, retryVars, output, log, attempt, retries, calls, waits,
                   heap,
                   made,
                   frame>>

\* let attempt = 1
EnterLoop ==
    /\ pc = "start"
    /\ pc' = "loop"
    /\ attempt' = 1
    /\ UNCHANGED <<pipelineVars, retryVars, thrown, output, log, retries, calls, waits,
                   heap,
                   made,
                   frame>>

\* attempt <= retries: fetch(...) is called
IssueFetch ==
    /\ pc = "loop"
    /\ attempt <= retries
    /\ pc' = "fetching"
    /\ calls' = Append(calls, Pending(attempt))
    /\ UNCHANGED <<pipelineVars, retryVars, thrown, output, log, attempt, retries, waits,
                   heap,
                   made,
                   frame>>

\* attempt > retries: the function ends without a return statement
FallOut ==
    /\ pc = "loop"
    /\ attempt > retries
    /\ pc' = "fellout"
    /\ UNCHANGED <<pipelineVars, retryVars, thrown, output, log, attempt, retries, calls,
                   waits,
                   heap,
                   made,
                   frame>>

\* fetch rejects: the catch block retries or throws
FetchRejected ==
    /\ pc = "fetching"
    /\ \E error \in {FetchFailed, InvalidUrl} :
          /\ calls' = Settle(calls, Rejection(attempt, error))
          /\ IF CatchRetries(error, attempt, retries)
             THEN /\ pc' = "waiting"
                  /\ waits' = Append(waits, 3000)
                  /\ log' = Append(log, LogEntry("warn", "Network error. Retrying", attempt))
                  /\ UNCHANGED thrown
             ELSE /\ pc' = "threw"
                  /\ thrown' = CatchThrows(error, attempt, retries)
                  /\ UNCHANGED <<waits, log,
                   heap,
                   made,
                   frame>>
    /\ UNCHANGED <<pipelineVars, retryVars, output, attempt, retries,
                   heap,
                   made,
                   frame>>

\* res.ok: return res.json(), whose rejection is not caught here
RespondedOk ==
    /\ pc = "fetching"
    /\ \E status \in {s \in Statuses : Ok(s)}, body \in Bodies :
          /\ calls' = Settle(calls, Response(attempt, status, body))
          /\ IF JSONparse(body).ok
             THEN /\ pc' = "returned"
                  /\ output' = JSONparse(body).obj
                  /\ UNCHANGED thrown
             ELSE /\ pc' = "threw"
                  /\ thrown' = SyntaxErrorMessage
                  /\ UNCHANGED output
    /\ UNCHANGED <<pipelineVars, retryVars, log, attempt, retries, waits,
                   heap,
                   made,
                   frame>>

\* !res.ok and res.text() rejects: the catch block throws the error on
BodyReadFails ==
    /\ pc = "fetching"
    /\ \E status \in {s \in Statuses : ~Ok(s)} :
          /\ calls' = Settle(calls, Response(attempt, status, Terminated))
          /\ IF CatchRetries(Terminated, attempt, retries)
             THEN /\ pc' = "waiting"
                  /\ waits' = Append(waits, 3000)
                  /\ log' = Append(log, LogEntry("warn", "Network error. Retrying", attempt))
                  /\ UNCHANGED thrown
             ELSE /\ pc' = "threw"
                  /\ thrown' = CatchThrows(Terminated, attempt, retries)
                  /\ UNCHANGED <<waits, log,
                   heap,
                   made,
                   frame>>
    /\ UNCHANGED <<pipelineVars, retryVars, output, attempt, retries,
                   heap,
                   made,
                   frame>>

\* !res.ok, 429 or 5xx before the last attempt: warn, wait, continue
RespondedRetryable ==
    /\ pc = "fetching"
    /\ \E status \in {s \in Statuses : ~Ok(s)}, body \in Bodies :
          /\ RetryWait(status, attempt, retries) > 0
          /\ calls' = Settle(calls, Response(attempt, status, body))
          /\ waits' = Append(waits, RetryWait(status, attempt, retries))
          /\ log' = Append(log,
                LogEntry("warn",
                         IF status = 429 THEN "Rate limited. Waiting 60 seconds"
                                         ELSE "Server error. Retrying in 5 seconds",
                         attempt))
    /\ pc' = "waiting"
    /\ UNCHANGED <<pipelineVars, retryVars, thrown, output, attempt, retries,
                   heap,
                   made,
                   frame>>

\* !res.ok and no retry: the error is thrown inside the try and passes the catch
RespondedError ==
    /\ pc = "fetching"
    /\ \E status \in {s \in Statuses : ~Ok(s)}, body \in Bodies :
          /\ RetryWait(status, attempt, retries) = 0
          /\ calls' = Settle(calls, Response(attempt, status, body))
          /\ IF CatchRetries(StatusError(status, attempt, retries), attempt, retries)
             THEN /\ pc' = "waiting"
                  /\ waits' = Append(waits, 3000)
                  /\ log' = Append(log, LogEntry("warn", "Network error. Retrying", attempt))
                  /\ UNCHANGED thrown
             ELSE /\ pc' = "threw"
                  /\ thrown' = CatchThrows(StatusError(status, attempt, retries),
                                           attempt, retries)
                  /\ UNCHANGED <<waits, log,
                   heap,
                   made,
                   frame>>
    /\ UNCHANGED <<pipelineVars, retryVars, output, attempt, retries,
                   heap,
                   made,
                   frame>>

\* the timer fires; continue: attempt++
WaitDone ==
    /\ pc = "waiting"
    /\ pc' = "loop"
    /\ attempt' = attempt + 1
    /\ UNCHANGED <<pipelineVars, retryVars, thrown, output, log, retries, calls, waits,
                   heap,
                   made,
                   frame>>

FetchNext ==
    \/ TokenThrows
    \/ EnterLoop
    \/ IssueFetch
    \/ FallOut
    \/ FetchRejected
    \/ RespondedOk
    \/ BodyReadFails
    \/ RespondedRetryable
    \/ RespondedError
    \/ WaitDone

FetchSpec == FetchInit /\ [][FetchNext]_vars

(***************************************************************************)
(* retry(fn, options): re-invocation with exponential backoff.             *)
(***************************************************************************)
\* the defaults of the destructured options
DefaultOptions ==
    [maxRetries |-> 3, baseDelay |-> 1000, maxDelay |-> 30000, backoffFactor |-> 2,
     shouldRetry |-> {"NetworkError", "RateLimitError"}]

\* the options after destructuring
Opt(opts) == IF opts = NoOptions THEN DefaultOptions ELSE opts

\* option objects retry is called with; shouldRetry is the set of error classes
\* the predicate accepts
RetryOptions ==
    {NoOptions} \cup
    [maxRetries : (0 - 1)..MaxRetries,
     baseDelay : {1000, 40000},
     maxDelay : {1500, 30000},
     backoffFactor : {1, 2},
     shouldRetry : {{"NetworkError", "RateLimitError"}, {"NetworkError", "ValidationError"}}]

\* errors fn rejects with
FnErrors == {"ECONNRESET", "ETIMEDOUT", "Too many requests", "Invalid file key"}

\* the class of an error fn rejects with
ErrorClass(error) ==
    CASE error \in {"ECONNRESET", "ETIMEDOUT"} -> "NetworkError"
      [] error = "Too many requests" -> "RateLimitError"
      [] OTHER -> "ValidationError"

\* shouldRetry(error)
ShouldRetry(opts, error) == ErrorClass(error) \in Opt(opts).shouldRetry

Min(a, b) == IF a <= b THEN a ELSE b

\* the backoff without the cap
UncappedDelay(current, opts) == current * Opt(opts).backoffFactor

\* delay = Math.min(delay * backoffFactor, maxDelay)
NextDelay(current, opts) == Min(current * Opt(opts).backoffFactor, Opt(opts).maxDelay)

\* the value fn resolves with
FnValue == Str(TextCss)

Resolution(n, value) == [attempt |-> n, kind |-> "resolved", status |-> 0, body |-> value]

fetchVars == <<retries, log>>

RetryInit ==
    /\ pc = "retry"
    /\ styles = NoStyles
    /\ compressed = CompressedOf(<<>>, 980)
    /\ maxTokens = 0
    /\ format = "css"
    /\ planned = FALSE
    /\ maxTokensPerChunk = 0
    /\ chunks = <<>>
    /\ i = 0
    /\ inflight = {}
    /\ requests = <<>>
    /\ responses = <<>>
    /\ results = <<>>
    /\ raised = NoError
    /\ thrown = NoError
    /\ output = NoOutput
    /\ combinerCalls = 0
    /\ log = <<>>
    /\ failure = NoError
    /\ offered = 0
    /\ answer = "none"
    /\ promptRuns = 0
    /\ propagated = NoError
    /\ attempt = 0
    /\ retries = 0
    /\ calls = <<>>
    /\ waits = <<>>
    /\ options \in RetryOptions
    /\ delay = 0
    /\ lastError = NoError
    /\ heap = <<>>
    /\ made = <<>>
    /\ frame = NoCall

\* let delay = baseDelay; let attempt = 0
StartRetry ==
    /\ pc = "retry"
    /\ pc' = "test"
    /\ delay' = Opt(options).baseDelay
    /\ attempt' = 0
    /\ UNCHANGED <<pipelineVars, fetchVars, thrown, output, calls, waits, options, lastError,
                   heap,
                   made,
                   frame>>

\* attempt <= maxRetries: fn() is called
CallFn ==
    /\ pc = "test"
    /\ attempt <= Opt(options).maxRetries
    /\ pc' = "calling"
    /\ calls' = Append(calls, Pending(attempt))
    /\ UNCHANGED <<pipelineVars, fetchVars, thrown, output, attempt, waits, options, delay,
                   lastError,
                   heap,
                   made,
                   frame>>

\* attempt <= maxRetries false: throw lastError
LoopEnds ==
    /\ pc = "test"
    /\ attempt > Opt(options).maxRetries
    /\ pc' = "threw"
    /\ thrown' = lastError
    /\ UNCHANGED <<pipelineVars, fetchVars, output, attempt, calls, waits, options, delay,
                   lastError,
                   heap,
                   made,
                   frame>>

\* return await fn()
FnResolved ==
    /\ pc = "calling"
    /\ pc' = "returned"
    /\ calls' = Settle(calls, Resolution(attempt, FnValue))
    /\ output' = FnValue
    /\ UNCHANGED <<pipelineVars, fetchVars, thrown, attempt, waits, options, delay, lastError,
                   heap,
                   made,
                   frame>>

\* fn rejects on the last attempt or with an error not to be retried: break,
\* then throw lastError
FnRejectedGivesUp ==
    /\ pc = "calling"
    /\ \E error \in FnErrors :
          /\ attempt = Opt(options).maxRetries \/ ~ShouldRetry(options, error)
          /\ calls' = Settle(calls, Rejection(attempt, error))
          /\ lastError' = error
          /\ thrown' = error
    /\ pc' = "threw"
    /\ UNCHANGED <<pipelineVars, fetchVars, output, attempt, waits, options, delay,
                   heap,
                   made,
                   frame>>

\* fn rejects and is retried: the wait of `delay` milliseconds starts
FnRejectedWaits ==
    /\ pc = "calling"
    /\ \E error \in FnErrors :
          /\ attempt # Opt(options).maxRetries
          /\ ShouldRetry(options, error)
          /\ calls' = Settle(calls, Rejection(attempt, error))
          /\ lastError' = error
    /\ pc' = "backoff"
    /\ waits' = Append(waits, delay)
    /\ UNCHANGED <<pipelineVars, fetchVars, thrown, output, attempt, options, delay,
                   heap,
                   made,
                   frame>>

\* the timer fires: the delay is raised, attempt++
BackoffDone ==
    /\ pc = "backoff"
    /\ pc' = "test"
    /\ delay' = NextDelay(delay, options)
    /\ attempt' = attempt + 1
    /\ UNCHANGED <<pipelineVars, fetchVars, thrown, output, calls, waits, options, lastError,
                   heap,
                   made,
                   frame>>

RetryNext ==
    \/ StartRetry
    \/ CallFn
    \/ LoopEnds
    \/ FnResolved
    \/ FnRejectedGivesUp
    \/ FnRejectedWaits
    \/ BackoffDone

RetrySpec == RetryInit /\ [][RetryNext]_vars

(***************************************************************************)
(* The object store.  compressStylesForAI, chunkStyles and the prompt      *)
(* builders are followed write by write: an object or array is a cell at   *)
(* an address, a property holds a primitive or the address of another      *)
(* cell, so that two properties may share one cell.                        *)
(***************************************************************************)
MaxRawStyles == 2   \* styles in a raw collection of StoreSpec
MaxCallsMade == 2   \* calls made on one raw collection in StoreSpec

\* a reference, a string, a number, a boolean and undefined
Ref(n) == [ref |-> n, prim |-> "", quoted |-> FALSE]
StrV(s) == [ref |-> 0, prim |-> s, quoted |-> TRUE]
NumV(n) == [ref |-> 0, prim |-> ToString(n), quoted |-> FALSE]
BoolV(b) == [ref |-> 0, prim |-> IF b THEN "true" ELSE "false", quoted |-> FALSE]
UndefV == [ref |-> 0, prim |-> "undefined", quoted |-> FALSE]

\* JavaScript truthiness
TruthyV(v) ==
    IF v.ref # 0 THEN TRUE
    ELSE IF v.quoted THEN v.prim # ""
    ELSE v.prim \notin {"undefined", "null", "false", "0", "NaN"}

\* value || fallback
Or(v, fallback) == IF TruthyV(v) THEN v ELSE fallback

Entry(name, value) == [name |-> name, value |-> value]

\* { ... } and [ ... ]
ObjectCell(entries) == [array |-> FALSE, entries |-> entries]
ArrayCell(values) ==
    [array |-> TRUE, entries |-> [k \in 1..Len(values) |-> Entry("", values[k])]]

\* the store with a new cell; its address is the new length
Alloc(h, cell) == Append(h, cell)

\* the value of a property in a list of entries
Lookup(es, name) ==
    IF \E k \in 1..Len(es) : es[k].name = name
    THEN es[CHOOSE k \in 1..Len(es) : es[k].name = name].value
    ELSE UndefV

\* o.name, o?.name
Load(h, addr, name) == IF addr = 0 THEN UndefV ELSE Lookup(h[addr].entries, name)

\* the entries of an object after name = value
Put(es, name, value) ==
    IF \E k \in 1..Len(es) : es[k].name = name
    THEN [k \in 1..Len(es) |-> IF es[k].name = name THEN Entry(name, value) ELSE es[k]]
    ELSE Append(es, Entry(name, value))

RECURSIVE PutAll(_, _)
PutAll(es, new) ==
    IF new = <<>> THEN es
    ELSE Put(PutAll(es, SubSeq(new, 1, Len(new) - 1)), new[Len(new)].name,
             new[Len(new)].value)

\* o.name = value
Store(h, addr, name, value) == [h EXCEPT ![addr].entries = Put(@, name, value)]

\* several assignments to the properties of one object, in order
StoreAll(h, addr, new) == [h EXCEPT ![addr].entries = PutAll(@, new)]

\* a.push(value), a.pop(), the elements of a, a.length
Push(h, addr, value) == [h EXCEPT ![addr].entries = Append(@, Entry("", value))]
Pop(h, addr) == [h EXCEPT ![addr].entries = SubSeq(@, 1, Len(@) - 1)]
Items(h, addr) == IF addr = 0 THEN <<>> ELSE h[addr].entries
Length(h, addr) == IF addr = 0 THEN 0 ELSE Len(h[addr].entries)

\* JSON.stringify(value).length
RECURSIVE StoreJsonLen(_, _)
RECURSIVE EntriesJsonLen(_, _, _, _)
StoreJsonLen(h, v) ==
    IF v.ref = 0 THEN Len(v.prim) + (IF v.quoted THEN 2 ELSE 0)
    ELSE 2 + EntriesJsonLen(h, v.ref, 1, h[v.ref].array)

\* the entries of the cell from the k-th on, with their commas
EntriesJsonLen(h, addr, k, isArray) ==
    IF k > Len(h[addr].entries) THEN 0
    ELSE (IF isArray THEN 0 ELSE Len(h[addr].entries[k].name) + 3)
         + StoreJsonLen(h, h[addr].entries[k].value)
         + (IF k < Len(h[addr].entries) THEN 1 ELSE 0)
         + EntriesJsonLen(h, addr, k + 1, isArray)

(***************************************************************************)
(* Raw style collections in the store, as getStylesFromFile builds them.   *)
(***************************************************************************)
StyleKinds == {"solid", "shadows", "text", "grid"}

lists == <<"fill", "text", "effect", "grid">>

\* the list the style of a kind is pushed to
ListOfKind(kind) ==
    CASE kind = "solid" -> "fill"
      [] kind = "shadows" -> "effect"
      [] kind = "text" -> "text"
      [] OTHER -> "grid"

\* { r, g, b, a }
ColorCell ==
    ObjectCell(<<Entry("r", NumV(0)), Entry("g", NumV(0)), Entry("b", NumV(1)),
                 Entry("a", NumV(1))>>)

\* the cells of a style { name, values } of a kind, the first at address at + 1,
\* the style itself last
StyleCells(kind, n, at) ==
    CASE kind = "solid" ->
            <<ColorCell,
              ObjectCell(<<Entry("type", StrV("SOLID")), Entry("color", Ref(at + 1)),
                           Entry("hex", StrV("#0000ff")), Entry("opacity", NumV(1))>>),
              ObjectCell(<<Entry("name", StrV("Style " \o ToString(n))),
                           Entry("values", Ref(at + 2))>>)>>
      [] kind = "shadows" ->
            <<ColorCell,
              ObjectCell(<<Entry("x", NumV(0)), Entry("y", NumV(4))>>),
              ObjectCell(<<Entry("type", StrV("DROP_SHADOW")), Entry("color", Ref(at + 1)),
                           Entry("offset", Ref(at + 2)), Entry("radius", NumV(8)),
                           Entry("visible", BoolV(TRUE))>>),
              ObjectCell(<<Entry("type", StrV("LAYER_BLUR")), Entry("radius", NumV(2))>>),
              ArrayCell(<<Ref(at + 3), Ref(at + 4)>>),
              ObjectCell(<<Entry("effects", Ref(at + 5))>>),
              ObjectCell(<<Entry("name", StrV("Style " \o ToString(n))),
                           Entry("values", Ref(at + 6))>>)>>
      [] kind = "text" ->
            <<ObjectCell(<<Entry("fontSize", NumV(14)),
                           Entry("fontFamily", StrV("Inter"))>>),
              ObjectCell(<<Entry("name", StrV("Style " \o ToString(n))),
                           Entry("values", Ref(at + 1))>>)>>
      [] OTHER ->
            <<ColorCell,
              ObjectCell(<<Entry("pattern", StrV("COLUMNS")), Entry("sectionSize", NumV(8)),
                           Entry("count", NumV(12)), Entry("color", Ref(at + 1))>>),
              ArrayCell(<<Ref(at + 2)>>),
              ObjectCell(<<Entry("grids", Ref(at + 3))>>),
              ObjectCell(<<Entry("name", StrV("Style " \o ToString(n))),
                           Entry("values", Ref(at + 4))>>)>>

\* the cells of the first n styles of a collection
RECURSIVE StylesCells(_, _)
StylesCells(kinds, n) ==
    IF n = 0 THEN <<>>
    ELSE StylesCells(kinds, n - 1)
         \o StyleCells(kinds[n], n, Len(StylesCells(kinds, n - 1)))

\* the styles pushed to a list, in order
RefsOf(kinds, list) ==
    LET own == SelectSeq([k \in 1..Len(kinds) |-> k],
                         LAMBDA k : ListOfKind(kinds[k]) = list)
    IN  [j \in 1..Len(own) |-> Ref(Len(StylesCells(kinds, own[j])))]

\* the raw collection { styles: { fill, text, effect, grid } }; the root is the
\* last cell
RawStore(kinds) ==
    StylesCells(kinds, Len(kinds))
    \o <<ArrayCell(RefsOf(kinds, "fill")), ArrayCell(RefsOf(kinds, "text")),
         ArrayCell(RefsOf(kinds, "effect")), ArrayCell(RefsOf(kinds, "grid")),
         ObjectCell(<<Entry("fill", Ref(Len(StylesCells(kinds, Len(kinds))) + 1)),
                      Entry("text", Ref(Len(StylesCells(kinds, Len(kinds))) + 2)),
                      Entry("effect", Ref(Len(StylesCells(kinds, Len(kinds))) + 3)),
                      Entry("grid", Ref(Len(StylesCells(kinds, Len(kinds))) + 4))>>),
         ObjectCell(<<Entry("styles", Ref(Len(StylesCells(kinds, Len(kinds))) + 5))>>)>>

RawKinds == UNION {[1..k -> StyleKinds] : k \in 0..MaxRawStyles}

\* the raw collections: the kinds of its styles and the address of its root
RawCollections == {[kinds |-> k, ref |-> Len(RawStore(k))] : k \in RawKinds}

(***************************************************************************)
(* compressStylesForAI on the store.                                       *)
(***************************************************************************)
\* a guarded copy: if (source.from) target.to = source.from, the test being
\* truthiness or !== undefined
Row(from, to, test) == [from |-> from, to |-> to, test |-> test]
T(name) == Row(name, name, "truthy")
D(name) == Row(name, name, "defined")

\* the assignments a list of guarded copies makes
RECURSIVE Copied(_, _, _)
Copied(h, source, rows) ==
    IF rows = <<>> THEN <<>>
    ELSE (IF \/ Head(rows).test = "defined" /\ Load(h, source, Head(rows).from) # UndefV
             \/ Head(rows).test = "truthy" /\ TruthyV(Load(h, source, Head(rows).from))
          THEN <<Entry(Head(rows).to, Load(h, source, Head(rows).from))>>
          ELSE <<>>)
         \o Copied(h, source, Tail(rows))

\* type?.startsWith('GRADIENT_')
IsGradient(type) ==
    type \in {StrV("GRADIENT_LINEAR"), StrV("GRADIENT_RADIAL"), StrV("GRADIENT_ANGULAR"),
              StrV("GRADIENT_DIAMOND")}

\* the guarded copies of a paint of this type, in source order
PaintRows(type) ==
    <<D("opacity"), T("blendMode")>>
    \o (IF type = StrV("SOLID") THEN <<T("color"), T("hex"), T("css")>> ELSE <<>>)
    \o (IF IsGradient(type)
        THEN <<T("gradientHandlePositions"), T("gradientStops"), T("gradient")>>
        ELSE <<>>)
    \o (IF type = StrV("IMAGE")
        THEN <<T("scaleMode"), T("imageTransform"), D("scalingFactor"), D("rotation"),
               T("imageRef"), T("filters"), T("gifRef")>>
        ELSE <<>>)
    \o (IF type = StrV("PATTERN")
        THEN <<T("sourceNodeId"), T("tileType"), D("scalingFactor"), T("spacing"),
               T("horizontalAlignment"), T("verticalAlignment")>>
        ELSE <<>>)

FallbackRows == <<Row("hex", "fallbackHex", "truthy"), Row("css", "fallbackCss", "truthy")>>

\* the paint taken over where it is: name and type written to style.values
PaintObjectInPlace(h, style, values) ==
    [heap |-> StoreAll(h, values,
                       <<Entry("name", Load(h, style, "name")),
                         Entry("type", Or(Load(h, values, "type"), StrV("unknown")))>>),
     addr |-> values]

\* const paint = { name: style.name, type: style.values?.type || 'unknown' }
PaintObject(h, style, values) ==
    [heap |-> Alloc(h, ObjectCell(
                <<Entry("name", Load(h, style, "name")),
                  Entry("type", Or(Load(h, values, "type"), StrV("unknown")))>>)),
     addr |-> Len(h) + 1]

\* the fallback copies, made when the paint has no color, gradientStops or imageRef
PaintFallback(h, paint, values) ==
    IF /\ ~TruthyV(Load(h, paint, "color"))
       /\ ~TruthyV(Load(h, paint, "gradientStops"))
       /\ ~TruthyV(Load(h, paint, "imageRef"))
    THEN Copied(h, values, FallbackRows)
    ELSE <<>>

\* the callback of styles.styles.fill.map
PaintToken(h, style) ==
    LET values == Load(h, style, "values").ref
        p == PaintObject(h, style, values)
        h2 == StoreAll(p.heap, p.addr,
                       Copied(h, values, PaintRows(Load(h, values, "type"))))
    IN  [heap |-> StoreAll(h2, p.addr, PaintFallback(h2, p.addr, values)),
         addr |-> p.addr]

\* the callback of styles.styles.text.map
TextToken(h, style) ==
    LET values == Load(h, style, "values").ref
    IN  [heap |-> Alloc(h, ObjectCell(
                    <<Entry("name", Load(h, style, "name")),
                      Entry("fontSize", Or(Load(h, values, "fontSize"), NumV(16))),
                      Entry("fontFamily", Or(Load(h, values, "fontFamily"), StrV("system"))),
                      Entry("fontWeight", Or(Load(h, values, "fontWeight"), StrV("normal"))),
                      Entry("lineHeight", Or(Load(h, values, "lineHeight"), StrV("normal"))),
                      Entry("letterSpacing",
                            Or(Load(h, values, "letterSpacing"), StrV("normal")))>>)),
         addr |-> Len(h) + 1]

\* the guarded copies of an effect of this type, in source order
EffectRows(type) ==
    <<D("radius"), T("blendMode"), D("visible")>>
    \o (IF type \in {StrV("INNER_SHADOW"), StrV("DROP_SHADOW")}
        THEN <<T("color"), T("offset"), D("spread"), D("showShadowBehindNode")>>
        ELSE <<>>)
    \o (IF type \in {StrV("LAYER_BLUR"), StrV("BACKGROUND_BLUR")}
        THEN <<T("blurType"), D("startRadius"), T("startOffset"), T("endOffset")>>
        ELSE <<>>)
    \o (IF type = StrV("NOISE")
        THEN <<D("noiseSize"), T("noiseType"), D("density"), T("secondaryColor"),
               D("opacity")>>
        ELSE <<>>)
    \o (IF type = StrV("TEXTURE") THEN <<D("noiseSize"), D("clipToShape")>> ELSE <<>>)

\* const effect = {...} and the assignments to it, effectData being
\* style.values.effects[0] and effects the shared list
EffectObject(h, style, effectData, effects) ==
    Alloc(h, ObjectCell(
        <<Entry("name", Load(h, style, "name")),
          Entry("type", Or(Load(h, effectData, "type"), StrV("unknown")))>>
        \o Copied(h, effectData, EffectRows(Load(h, effectData, "type")))
        \o (IF Length(h, effects.ref) > 1 THEN <<Entry("allEffects", effects)>>
            ELSE <<>>)))

\* the callback of styles.styles.effect.map; address 0 is null
EffectToken(h, style) ==
    LET effects == Load(h, Load(h, style, "values").ref, "effects")
    IN  IF effects.ref = 0 THEN [heap |-> h, addr |-> 0]
        ELSE IF ~h[effects.ref].array \/ Length(h, effects.ref) = 0
        THEN [heap |-> h, addr |-> 0]
        ELSE [heap |-> EffectObject(h, style, Items(h, effects.ref)[1].value.ref, effects),
              addr |-> Len(h) + 1]

GridRows ==
    <<T("pattern"), D("sectionSize"), D("gutterSize"), D("offset"), D("count"),
      T("alignment"), T("color")>>

\* the callback of styles.styles.grid.map
GridToken(h, style) ==
    LET grids == Load(h, Load(h, style, "values").ref, "grids")
    IN  [heap |-> Alloc(h, ObjectCell(
                    <<Entry("name", Load(h, style, "name")), Entry("type", StrV("grid"))>>
                    \o (IF grids.ref # 0 /\ Length(h, grids.ref) > 0
                        THEN Copied(h, Items(h, grids.ref)[1].value.ref, GridRows)
                        ELSE <<>>))),
         addr |-> Len(h) + 1]

Token(h, list, style) ==
    CASE list = "fill" -> PaintToken(h, style)
      [] list = "text" -> TextToken(h, style)
      [] list = "effect" -> EffectToken(h, style)
      [] OTHER -> GridToken(h, style)

\* the callbacks of .filter
Keep(h, list, addr) ==
    CASE list = "fill" ->
            \/ Load(h, addr, "type") # StrV("unknown")
            \/ TruthyV(Load(h, addr, "fallbackHex"))
            \/ TruthyV(Load(h, addr, "fallbackCss"))
      [] list = "text" -> TRUE
      [] list = "effect" -> addr # 0 /\ Load(h, addr, "type") # StrV("unknown")
      [] OTHER ->
            \/ TruthyV(Load(h, addr, "pattern"))
            \/ Load(h, addr, "sectionSize") # UndefV

\* { colors: [], typography: [], effects: [], spacing: [] } as the last cell
WithEmptyChunk(h) ==
    h \o <<ArrayCell(<<>>), ArrayCell(<<>>), ArrayCell(<<>>), ArrayCell(<<>>),
           ObjectCell(<<Entry("colors", Ref(Len(h) + 1)),
                        Entry("typography", Ref(Len(h) + 2)),
                        Entry("effects", Ref(Len(h) + 3)),
                        Entry("spacing", Ref(Len(h) + 4))>>)>>

\* the four counts of a summary
Totals(h, obj) ==
    <<Entry("totalColors", NumV(Length(h, Load(h, obj, "colors").ref))),
      Entry("totalTypography", NumV(Length(h, Load(h, obj, "typography").ref))),
      Entry("totalEffects", NumV(Length(h, Load(h, obj, "effects").ref))),
      Entry("totalSpacing", NumV(Length(h, Load(h, obj, "spacing").ref)))>>

\* obj.summary = { ...totals, name: n }
WithSummaryCell(h, obj, name, n) ==
    Store(Alloc(h, ObjectCell(Append(Totals(h, obj), Entry(name, NumV(n))))),
          obj, "summary", Ref(Len(h) + 1))

\* currentChunk.summary = {...}; chunks.push(currentChunk)
Finalize(h, cur, out) ==
    Push(WithSummaryCell(h, cur, "chunkNumber", Length(h, out) + 1), out, Ref(cur))

(***************************************************************************)
(* StoreSpec: normalize, plan and prompt-construction calls, in any order, *)
(* on one raw collection, each followed statement by statement.            *)
(***************************************************************************)
\* budgets chunkStyles is called with
StoreBudgets == {30, 60, 1000}

otherVars == <<compressed, maxTokens, format, planned, maxTokensPerChunk, chunks, i,
               inflight, requests, responses, results, raised, thrown, output,
               combinerCalls, log, failure, offered, answer, promptRuns, propagated,
               attempt, retries, calls, waits, options, delay, lastError>>

StoreInit ==
    /\ pc = "idle"
    /\ styles \in RawCollections
    /\ compressed = CompressedOf(<<>>, 980)
    /\ maxTokens = 0
    /\ format = "css"
    /\ planned = FALSE
    /\ maxTokensPerChunk = 0
    /\ chunks = <<>>
    /\ i = 0
    /\ inflight = {}
    /\ requests = <<>>
    /\ responses = <<>>
    /\ results = <<>>
    /\ raised = NoError
    /\ thrown = NoError
    /\ output = NoOutput
    /\ combinerCalls = 0
    /\ log = <<>>
    /\ failure = NoError
    /\ offered = 0
    /\ answer = "none"
    /\ promptRuns = 0
    /\ propagated = NoError
    /\ attempt = 0
    /\ retries = 0
    /\ calls = <<>>
    /\ waits = <<>>
    /\ options = NoOptions
    /\ delay = 0
    /\ lastError = NoError
    /\ heap = RawStore(styles.kinds)
    /\ made = <<>>
    /\ frame = NoCall

\* a call begins: const compressed = { colors: [], typography: [], effects: [],
\* spacing: [] }
Enter(call, maxTok) ==
    /\ pc' = "map"
    /\ heap' = WithEmptyChunk(heap)
    /\ frame' = [call |-> call, maxTok |-> maxTok, compressed |-> Len(heap) + 5,
                 list |-> 1, index |-> 1, kept |-> <<>>,
                 cur |-> 0, out |-> 0, cat |-> 1]
    /\ UNCHANGED <<otherVars, styles, made>>

\* compressStylesForAI(styles)
NormalizeCall ==
    /\ pc = "idle"
    /\ Len(made) < MaxCallsMade
    /\ Enter("compressStylesForAI", 0)

\* chunkStyles(styles, maxTokensPerChunk)
PlanCall ==
    /\ pc = "idle"
    /\ Len(made) < MaxCallsMade
    /\ \E maxTok \in StoreBudgets : Enter("chunkStyles", maxTok)

\* createPrompt(styles, format) / createTokenPrompt(styles)
PromptCall ==
    /\ pc = "idle"
    /\ Len(made) < MaxCallsMade
    /\ Enter("createPrompt", 0)

\* styles.styles?.[list]
ListIn(h, root, list) == Load(h, Load(h, root, "styles").ref, list)

\* one callback of .map and of .filter on the style at frame.index
MapStyle ==
    /\ pc = "map"
    /\ frame.list <= 4
    /\ frame.index <= Length(heap, ListIn(heap, styles.ref, lists[frame.list]).ref)
    /\ \E t \in {Token(heap, lists[frame.list],
                       Items(heap, ListIn(heap, styles.ref, lists[frame.list]).ref)
                           [frame.index].value.ref)} :
          /\ heap' = t.heap
          /\ frame' = [frame EXCEPT
                          !.index = @ + 1,
                          !.kept = IF Keep(t.heap, lists[frame.list], t.addr)
                                   THEN Append(@, Ref(t.addr)) ELSE @]
    /\ UNCHANGED <<otherVars, pc, styles, made>>

\* compressed[category] = the filtered array, if the raw list exists
EndList ==
    /\ pc = "map"
    /\ frame.list <= 4
    /\ frame.index > Length(heap, ListIn(heap, styles.ref, lists[frame.list]).ref)
    /\ heap' = IF ListIn(heap, styles.ref, lists[frame.list]).ref = 0 THEN heap
               ELSE Store(Alloc(heap, ArrayCell(frame.kept)), frame.compressed,
                          categories[frame.list], Ref(Len(heap) + 1))
    /\ frame' = [frame EXCEPT !.list = @ + 1, !.index = 1, !.kept = <<>>]
    /\ UNCHANGED <<otherVars, pc, styles, made>>

\* compressed.summary = {...}
Summarize ==
    /\ pc = "map"
    /\ frame.list = 5
    /\ pc' = "compressed"
    /\ heap' = WithSummaryCell(heap, frame.compressed, "originalFileSize",
                               StoreJsonLen(heap, Ref(styles.ref)))
    /\ UNCHANGED <<otherVars, styles, made, frame>>

\* return compressed
ReturnCompressed ==
    /\ pc = "compressed"
    /\ frame.call = "compressStylesForAI"
    /\ pc' = "idle"
    /\ made' = Append(made, [call |-> frame.call, result |-> frame.compressed,
                             length |-> 0])
    /\ frame' = NoCall
    /\ UNCHANGED <<otherVars, styles, heap>>

\* JSON.stringify(compressedStyles, null, 2) and JSON.stringify(styles): the
\* prompt is a string
ReturnPrompt ==
    /\ pc = "compressed"
    /\ frame.call = "createPrompt"
    /\ pc' = "idle"
    /\ made' = Append(made, [call |-> frame.call, result |-> 0,
                             length |-> StoreJsonLen(heap, Ref(styles.ref))])
    /\ frame' = NoCall
    /\ UNCHANGED <<otherVars, styles, heap>>

\* const chunks = []; not over the budget: return [compressed]
ReturnWhole ==
    /\ pc = "compressed"
    /\ frame.call = "chunkStyles"
    /\ ~(countTokens(StoreJsonLen(heap, Ref(frame.compressed))) > frame.maxTok)
    /\ pc' = "idle"
    /\ heap' = heap \o <<ArrayCell(<<>>), ArrayCell(<<Ref(frame.compressed)>>)>>
    /\ made' = Append(made, [call |-> frame.call, result |-> Len(heap) + 2, length |-> 0])
    /\ frame' = NoCall
    /\ UNCHANGED <<otherVars, styles>>

\* const chunks = []; over the budget: let currentChunk = {...}
StartSplit ==
    /\ pc = "compressed"
    /\ frame.call = "chunkStyles"
    /\ countTokens(StoreJsonLen(heap, Ref(frame.compressed))) > frame.maxTok
    /\ pc' = "push"
    /\ heap' = WithEmptyChunk(Alloc(heap, ArrayCell(<<>>)))
    /\ frame' = [frame EXCEPT !.out = Len(heap) + 1, !.cur = Len(heap) + 6,
                              !.cat = 1, !.index = 1]
    /\ UNCHANGED <<otherVars, styles, made>>

\* compressed[category] || []
CategoryItems(h, f) == Items(h, Load(h, f.compressed, categories[f.cat]).ref)

\* one iteration of the inner loop: push, re-estimate, and on overflow pop,
\* finalize the working chunk and start a new one holding the item
PushStep ==
    /\ pc = "push"
    /\ frame.cat <= 4
    /\ frame.index <= Len(CategoryItems(heap, frame))
    /\ \E item \in {CategoryItems(heap, frame)[frame.index].value},
          arr \in {Load(heap, frame.cur, categories[frame.cat]).ref} :
          \E h1 \in {Push(heap, arr, item)} :
             IF countTokens(StoreJsonLen(h1, Ref(frame.cur))) > frame.maxTok
             THEN \E h2 \in {WithEmptyChunk(Finalize(Pop(h1, arr), frame.cur, frame.out))} :
                     /\ heap' = Store(Alloc(h2, ArrayCell(<<item>>)), Len(h2),
                                      categories[frame.cat], Ref(Len(h2) + 1))
                     /\ frame' = [frame EXCEPT !.cur = Len(h2), !.index = @ + 1]
             ELSE /\ heap' = h1
                  /\ frame' = [frame EXCEPT !.index = @ + 1]
    /\ UNCHANGED <<otherVars, pc, styles, made>>

\* the inner loop ends: next category
NextCategory ==
    /\ pc = "push"
    /\ frame.cat <= 4
    /\ frame.index > Len(CategoryItems(heap, frame))
    /\ frame' = [frame EXCEPT !.cat = @ + 1, !.index = 1]
    /\ UNCHANGED <<otherVars, pc, styles, made, heap>>

\* the remaining items as the final chunk; return chunks
FinishPlan ==
    /\ pc = "push"
    /\ frame.cat = 5
    /\ pc' = "idle"
    /\ heap' = IF \E k \in 1..Length(heap, frame.cur) :
                     Length(heap, Items(heap, frame.cur)[k].value.ref) > 0
               THEN Finalize(heap, frame.cur, frame.out)
               ELSE heap
    /\ made' = Append(made, [call |-> frame.call, result |-> frame.out, length |-> 0])
    /\ frame' = NoCall
    /\ UNCHANGED <<otherVars, styles>>

StoreNext ==
    \/ NormalizeCall
    \/ PlanCall
    \/ PromptCall
    \/ MapStyle
    \/ EndList
    \/ Summarize
    \/ ReturnCompressed
    \/ ReturnPrompt
    \/ ReturnWhole
    \/ StartSplit
    \/ PushStep
    \/ NextCategory
    \/ FinishPlan

StoreSpec == StoreInit /\ [][StoreNext]_vars

(***************************************************************************)
(* Chunk planner properties.                                               *)
(***************************************************************************)
RECURSIVE ConcatCategory(_, _)
ConcatCategory(cs, c) ==
    IF cs = <<>> THEN <<>> ELSE Head(cs)[c] \o ConcatCategory(Tail(cs), c)

ItemCount(chunk) ==
    Len(chunk.colors) + Len(chunk.typography) + Len(chunk.effects) + Len(chunk.spacing)

\* the tokens of a chunk, as a set
ItemsIn(chunk) ==
    UNION {{chunk[c][k] : k \in 1..Len(chunk[c])} : c \in CategorySet}

\* the item's own serialized size exceeds the budget
Oversized(item, maxTok) == countTokens(item.len) > maxTok

\* C1: for every compressed set and budget, concatenating a category's arrays
\* over the chunks chunkStyles returned, in chunk order, gives exactly the
\* compressed set's array of that category (nothing lost, duplicated, reordered).
C1_LosslessPartition ==
    planned => \A c \in CategorySet : ConcatCategory(chunks, c) = compressed[c]

\* a set was split into three chunks or more, one category spread over two of them
C1_Witness ==
    /\ planned
    /\ Len(chunks) >= 3
    /\ \E c \in CategorySet : \E a, b \in 1..Len(chunks) :
          a # b /\ chunks[a][c] # <<>> /\ chunks[b][c] # <<>>

\* C2: if the serialized compressed set estimates to at most the budget,
\* chunkStyles returns exactly one chunk, the compressed set unchanged, whose
\* summary has no chunkNumber field.
C2_SmallSetSingleChunk ==
    (planned /\ countTokens(StringifyLen(compressed)) <= maxTokensPerChunk)
        => /\ Len(chunks) = 1
           /\ chunks[1] = compressed
           /\ "chunkNumber" \notin DOMAIN chunks[1].summary

\* a non-empty set whose estimate equals the budget was planned
C2_Witness ==
    /\ planned
    /\ countTokens(StringifyLen(compressed)) = maxTokensPerChunk
    /\ ItemCount(compressed) > 0
    /\ Len(chunks) = 1

\* C3: whenever the serialized compressed set (summary included) estimates to
\* more than the budget, chunkStyles returns at least two chunks.
C3_OverBudgetSplitsInTwo ==
    (planned /\ countTokens(StringifyLen(compressed)) > maxTokensPerChunk)
        => Len(chunks) >= 2

\* C4: when chunkStyles splits a set, every returned chunk, serialized with its
\* summary, estimates to at most the budget, except a chunk holding exactly one
\* item whose own size exceeds the budget.
C4_ChunksWithinBudget ==
    (planned /\ shouldChunkStyles(compressed, maxTokensPerChunk))
        => \A k \in 1..Len(chunks) :
              \/ countTokens(StringifyLen(chunks[k])) <= maxTokensPerChunk
              \/ /\ ItemCount(chunks[k]) = 1
                 /\ \A it \in ItemsIn(chunks[k]) : Oversized(it, maxTokensPerChunk)

\* C5: an item whose own serialized size exceeds the budget is placed whole
\* in a chunk that holds nothing else, of any category.
C5_OversizedItemAlone ==
    planned =>
        /\ \A k \in 1..Len(chunks) : \A it \in ItemsIn(chunks[k]) :
              Oversized(it, maxTokensPerChunk) => ItemCount(chunks[k]) = 1
        /\ \A c \in CategorySet : \A j \in 1..Len(compressed[c]) :
              Oversized(compressed[c][j], maxTokensPerChunk)
                 => \E k \in 1..Len(chunks) :
                       /\ chunks[k][c] = <<compressed[c][j]>>
                       /\ ItemCount(chunks[k]) = 1

\* an oversized item sits between two other items, each in a chunk of its own
C5_Witness ==
    /\ planned
    /\ \E k \in 2..(Len(chunks) - 1) :
          /\ ItemCount(chunks[k]) = 1
          /\ \A it \in ItemsIn(chunks[k]) : Oversized(it, maxTokensPerChunk)
          /\ ItemCount(chunks[k - 1]) >= 1
          /\ ItemCount(chunks[k + 1]) >= 1

\* the working chunk a returned chunk was finalized from: the chunk without summary
Working(chunk) ==
    [colors |-> chunk.colors, typography |-> chunk.typography,
     effects |-> chunk.effects, spacing |-> chunk.spacing]

\* the category of the first item of a non-empty chunk, in iteration order
FirstCategory(chunk) ==
    categories[CHOOSE k \in 1..4 :
                  /\ chunk[categories[k]] # <<>>
                  /\ \A j \in 1..(k - 1) : chunk[categories[j]] = <<>>]

\* the set was split by the loop of chunkStyles
Split == planned /\ chunks # <<compressed>>

\* C22: the estimate of a text of n characters is ceil(n / 4), 0 for the empty
\* text, and both budgeting decisions compare it strictly: the set is returned
\* whole exactly when its serialization has at most 4 * budget characters; in a
\* split, a working chunk that accepted an item has at most 4 * budget characters,
\* and the item that opened the next chunk would have taken it beyond that.
C22_CeilQuarterStrict ==
    planned =>
        LET n == StringifyLen(compressed)
            b == maxTokensPerChunk
        IN  /\ countTokens(0) = 0
            /\ 4 * countTokens(n) >= n
            /\ 4 * (countTokens(n) - 1) < n
            /\ (chunks = <<compressed>>) <=> (n <= 4 * b)
            /\ Split =>
                  /\ \A k \in 1..Len(chunks) :
                        ItemCount(chunks[k]) >= 2
                            => StringifyLen(Working(chunks[k])) <= 4 * b
                  /\ \A k \in 1..(Len(chunks) - 1) :
                        LET c == FirstCategory(chunks[k + 1])
                            pushed == [Working(chunks[k]) EXCEPT
                                          ![c] = Append(@, chunks[k + 1][c][1])]
                        IN  StringifyLen(pushed) > 4 * b

\* a set one token over the budget, its length no multiple of 4, was split and a
\* chunk holds two items
C22_Witness ==
    /\ Split
    /\ StringifyLen(compressed) % 4 # 0
    /\ \E k \in 1..Len(chunks) : ItemCount(chunks[k]) >= 2
    /\ \E k \in 1..Len(chunks) :
          /\ ItemCount(chunks[k]) >= 2
          /\ StringifyLen(Working(chunks[k])) % 4 # 0
          /\ countTokens(StringifyLen(Working(chunks[k]))) = maxTokensPerChunk

\* C26: when chunkStyles splits a set into n chunks, the chunk at position k has
\* chunkNumber k (the numbers are exactly 1..n) and the counts of its summary are
\* the lengths of its own category arrays.
C26_ChunkNumbersAndCounts ==
    Split =>
        \A k \in 1..Len(chunks) :
            /\ chunks[k].summary.chunkNumber = k
            /\ chunks[k].summary.totalColors = Len(chunks[k].colors)
            /\ chunks[k].summary.totalTypography = Len(chunks[k].typography)
            /\ chunks[k].summary.totalEffects = Len(chunks[k].effects)
            /\ chunks[k].summary.totalSpacing = Len(chunks[k].spacing)
            /\ "originalFileSize" \notin DOMAIN chunks[k].summary

\* three chunks, one of them holding items of two categories, fewer than the set has
C26_Witness ==
    /\ Split
    /\ Len(chunks) = 3
    /\ \E k \in 1..3 :
          /\ Len(chunks[k].colors) = 1
          /\ Len(chunks[k].typography) = 1
          /\ chunks[k].summary.totalColors < compressed.summary.totalColors

\* C27: every chunk chunkStyles returns when it splits a set holds at least one
\* item, so no generation request is issued for a chunk without tokens.
C27_NoEmptyChunk ==
    Split =>
        /\ \A k \in 1..Len(chunks) : ItemCount(chunks[k]) >= 1
        /\ \A k \in 1..Len(requests) : ItemCount(requests[k].chunk) >= 1

(***************************************************************************)
(* Result combiner properties.                                             *)
(***************************************************************************)
Combined == pc = "done" /\ combinerCalls = 1

\* C8: for a single result r and every format other than json,
\* combineChunkedResults([r], format) returns exactly r.
C8_SingleResultIdentity ==
    (Combined /\ Len(results) = 1 /\ format # "json")
        => output = Str(results[1])

\* C8 as the code has it: for a single result r and a format other than json the
\* output is the combined-output header followed by r with no separator; for
\* tailwind the header followed by the configuration wrapper around the object
\* literal extracted from r (around r itself when the pattern does not match).
C8_SingleResultAfterHeader ==
    (Combined /\ Len(results) = 1 /\ format # "json")
        => IF format = "tailwind"
           THEN output = <<[t |-> "header", n |-> 1], [t |-> "configOpen", n |-> 1]>>
                         \o (IF MatchConfig(results[1]).matched
                             THEN <<[t |-> "group", s |-> MatchConfig(results[1]).group]>>
                             ELSE Str(results[1]))
                         \o <<[t |-> "configClose"]>>
           ELSE output = <<[t |-> "header", n |-> 1]>> \o Str(results[1])

\* a single css result was combined: the output is longer than the result
C8_Witness ==
    /\ Combined
    /\ Len(results) = 1
    /\ format = "css"
    /\ Len(output) = 2
    /\ output[2] = Str(results[1])[1]

AllParse(res) == \A k \in 1..Len(res) : JSONparse(res[k]).ok

\* the last chunk whose parsed object has the key
LatestWith(res, key) ==
    CHOOSE k \in 1..Len(res) :
        /\ key \in DOMAIN JSONparse(res[k]).obj
        /\ \A j \in (k + 1)..Len(res) : key \notin DOMAIN JSONparse(res[j]).obj

\* C9: for json and results that all parse as objects, the output is the shallow
\* merge in chunk order: every top-level key of every chunk is present and a key
\* present in several chunks has the value of the latest of them; {a:1} and {b:2}
\* give {a:1, b:2}.
C9_JsonShallowMerge ==
    (Combined /\ format = "json" /\ AllParse(results))
        => LET keys == UNION {DOMAIN JSONparse(results[k]).obj : k \in 1..Len(results)}
           IN  /\ output = <<[t |-> "json",
                              obj |-> [key \in keys |->
                                  JSONparse(results[LatestWith(results, key)]).obj[key]]]>>
               /\ results = <<TextObjA, TextObjB>>
                    => output[1].obj = (Key("a") :> Num(1)) @@ (Key("b") :> Num(2))

\* three objects were merged, the key a of the first overwritten by the third
C9_Witness ==
    /\ Combined
    /\ format = "json"
    /\ results = <<TextObjA, TextObjB, TextObjAC>>
    /\ output[1].obj[Key("a")] = Num(3)
    /\ output[1].obj[Key("b")] = Num(2)

\* C10: for json, a result that fails to parse does not abort the merge: its raw
\* text is in the merged output under the fallback field of its chunk, and every
\* other chunk that parses is still merged.
C10_ParseFailureFallback ==
    (Combined /\ format = "json")
        => /\ Len(output) = 1
           /\ output[1].t = "json"
           /\ \A k \in 1..Len(results) :
                 IF JSONparse(results[k]).ok
                 THEN DOMAIN JSONparse(results[k]).obj \subseteq DOMAIN output[1].obj
                 ELSE /\ ChunkKey(k) \in DOMAIN output[1].obj
                      /\ output[1].obj[ChunkKey(k)] = Raw(results[k])

\* C11: for tailwind the extracted object literals are wrapped in one outer
\* configuration object only if the pattern matched in every chunk's text; if
\* it fails to match for any chunk, the output is the plain concatenation of
\* the results with the line-comment separator.
C11_TailwindFallbackOnMismatch ==
    (Combined /\ format = "tailwind")
        => IF \A k \in 1..Len(results) : MatchConfig(results[k]).matched
           THEN /\ output[2].t = "configOpen"
                /\ output[Len(output)].t = "configClose"
           ELSE output = <<[t |-> "header", n |-> Len(results)]>>
                         \o Join(Strs(results),
                                 <<[t |-> "sep", s |-> "\n\n// --- Next chunk ---\n\n"]>>)

\* the texts of a result list, in order, with this separator piece between them
RECURSIVE Interleave(_, _)
Interleave(res, sepPiece) ==
    IF res = <<>> THEN <<>>
    ELSE IF Len(res) = 1 THEN <<[t |-> "text", s |-> res[1]]>>
    ELSE <<[t |-> "text", s |-> res[1]], sepPiece>> \o Interleave(Tail(res), sepPiece)

\* C12: for the text formats the output is the header comment followed by the
\* result texts in their given order with one separator between consecutive
\* results: the block-comment separator for css, scss and css-variables, the
\* line-comment separator for javascript and every unrecognized format.
C12_TextFormatsConcatenate ==
    (Combined /\ format \notin {"json", "tailwind"})
        => output = <<[t |-> "header", n |-> Len(results)]>>
                    \o Interleave(results,
                          IF format \in {"css", "scss", "css-variables"}
                          THEN [t |-> "sep", s |-> "\n\n/* --- Next chunk --- */\n\n"]
                          ELSE [t |-> "sep", s |-> "\n\n// --- Next chunk ---\n\n"])

\* three differing results were combined for scss: two block separators
C12_Witness ==
    /\ Combined
    /\ format = "scss"
    /\ Len(results) = 3
    /\ results[1] # results[2]
    /\ Len(output) = 6
    /\ output[3] = [t |-> "sep", s |-> "\n\n/* --- Next chunk --- */\n\n"]
    /\ output[5] = output[3]

\* the chunk holds a single item and estimates over the budget it was planned with
OverBudgetSingle(chunk) ==
    /\ ItemCount(chunk) = 1
    /\ countTokens(StringifyLen(Working(chunk))) > maxTokensPerChunk

\* C24: when a single item exceeds the chunk budget no error is raised, a
\* warning is logged for the over-budget chunk, and the chunk is submitted like
\* any other.
C24_OverBudgetChunkWarned ==
    Split =>
        \A k \in 1..Len(chunks) :
            OverBudgetSingle(chunks[k]) =>
                /\ thrown # NoError => raised # NoError
                /\ (pc = "done" => \E r \in 1..Len(requests) : requests[r].chunk = chunks[k])
                /\ (pc = "done" =>
                      \E e \in 1..Len(log) :
                          /\ log[e].level = "warn"
                          /\ log[e].msg # "File is large, splitting into chunks")

(***************************************************************************)
(* Generation loop properties.                                             *)
(***************************************************************************)

\* C6: in the chunked path the requests are issued for chunks 1..n in chunk
\* order, each once, at most one outstanding at a time (request k+1 only after
\* request k resolved), and the list handed to the combiner holds result k at
\* position k.
C6_SequentialInOrder ==
    planned =>
        /\ Cardinality(inflight) <= 1
        /\ Len(requests) <= Len(chunks)
        /\ \A k \in 1..Len(requests) :
              requests[k] = createChunkPrompt(chunks[k], format, k, Len(chunks))
        /\ inflight # {} =>
              /\ inflight = {Len(requests)}
              /\ Len(responses) = Len(requests) - 1
        /\ (inflight = {} /\ raised = NoError) => Len(responses) = Len(requests)
        /\ results = responses
        /\ combinerCalls > 0 =>
              /\ combinerCalls = 1
              /\ Len(requests) = Len(chunks)
              /\ output = combineChunkedResults(responses, format)

\* three chunks were generated one after the other, with differing texts, and combined
C6_Witness ==
    /\ planned
    /\ pc = "done"
    /\ Len(chunks) >= 3
    /\ responses[1] # responses[2]
    /\ Len(results) = Len(chunks)

\* C7: if the generation call for chunk k fails, no request is issued for a later
\* chunk, chunk k is not retried, the combiner is not called, nothing is returned,
\* and the error thrown is the very error the generation capability raised.
C7_FailFast ==
    (planned /\ raised # NoError) =>
        /\ pc = "threw"
        /\ thrown = raised
        /\ output = NoOutput
        /\ combinerCalls = 0
        /\ inflight = {}
        /\ Len(requests) = i + 1
        /\ Len(responses) = i
        /\ \A k \in 1..Len(requests) : requests[k].chunkNumber = k

\* the second of three chunks failed after the first had succeeded
C7_Witness ==
    /\ planned
    /\ raised # NoError
    /\ thrown = raised
    /\ i = 1
    /\ Len(chunks) = 3
    /\ Len(results) = 1

(***************************************************************************)
(* compressStylesForAI: the raw style collection and its normal form.      *)
(*                                                                         *)
(* A JavaScript value is a record carrying one tag: str, num, bool, null,  *)
(* undef, list (an array) or opaque (an object or array the code only      *)
(* copies, with the length of its JSON text).  A record without a tag is   *)
(* an object holding exactly its present properties.                       *)
(***************************************************************************)
MaxStyles == 2      \* style entries in a raw style collection

Undef == [undef |-> TRUE]
Null == [null |-> TRUE]
JStr(text) == [str |-> text]
JNum(n) == [num |-> n]
JBool(b) == [bool |-> b]
JList(seq) == [list |-> seq]
JObj(id, jsonLen) == [opaque |-> id, len |-> jsonLen]

Tags == {"undef", "null", "str", "num", "bool", "list", "opaque"}

IsObject(v) == DOMAIN v \cap Tags = {}
IsArray(v) == "list" \in DOMAIN v
IsNullish(v) == v = Undef \/ v = Null

\* JavaScript truthiness
Truthy(v) ==
    CASE "undef" \in DOMAIN v -> FALSE
      [] "null" \in DOMAIN v -> FALSE
      [] "str" \in DOMAIN v -> v.str # ""
      [] "num" \in DOMAIN v -> v.num # 0
      [] "bool" \in DOMAIN v -> v.bool
      [] OTHER -> TRUE

\* o?.f : undefined when o is nullish or lacks the property
Get(o, f) == IF IsObject(o) /\ f \in DOMAIN o THEN o[f] ELSE Undef

\* style.values?.f
ValueOf(style, f) == Get(Get(style, "values"), f)

\* a || fallback
OrElse(a, fallback) == IF Truthy(a) THEN a ELSE fallback

\* if (src.f) token.f = src.f
CopyIfTruthy(src, f) == IF Truthy(Get(src, f)) THEN f :> Get(src, f) ELSE <<>>

\* if (src.f !== undefined) token.f = src.f
CopyIfDefined(src, f) == IF Get(src, f) # Undef THEN f :> Get(src, f) ELSE <<>>

\* String.prototype.startsWith('GRADIENT_') over the paint types of the samples
GradientTypes ==
    {"GRADIENT_LINEAR", "GRADIENT_RADIAL", "GRADIENT_ANGULAR", "GRADIENT_DIAMOND"}
StartsWithGradient(type) == "str" \in DOMAIN type /\ type.str \in GradientTypes

\* the paint built for one fill style
Paint(style) ==
    LET v == Get(style, "values")
        type == Get(v, "type")
        base == ("name" :> Get(style, "name"))
                @@ ("type" :> OrElse(type, JStr("unknown")))
        common == CopyIfDefined(v, "opacity") @@ CopyIfTruthy(v, "blendMode")
        solid == IF type = JStr("SOLID")
                 THEN CopyIfTruthy(v, "color") @@ CopyIfTruthy(v, "hex")
                      @@ CopyIfTruthy(v, "css")
                 ELSE <<>>
        gradient == IF StartsWithGradient(type)
                    THEN CopyIfTruthy(v, "gradientHandlePositions")
                         @@ CopyIfTruthy(v, "gradientStops")
                         @@ CopyIfTruthy(v, "gradient")
                    ELSE <<>>
        image == IF type = JStr("IMAGE")
                 THEN CopyIfTruthy(v, "scaleMode") @@ CopyIfTruthy(v, "imageTransform")
                      @@ CopyIfDefined(v, "scalingFactor") @@ CopyIfDefined(v, "rotation")
                      @@ CopyIfTruthy(v, "imageRef") @@ CopyIfTruthy(v, "filters")
                      @@ CopyIfTruthy(v, "gifRef")
                 ELSE <<>>
        pattern == IF type = JStr("PATTERN")
                   THEN CopyIfTruthy(v, "sourceNodeId") @@ CopyIfTruthy(v, "tileType")
                        @@ CopyIfDefined(v, "scalingFactor") @@ CopyIfTruthy(v, "spacing")
                        @@ CopyIfTruthy(v, "horizontalAlignment")
                        @@ CopyIfTruthy(v, "verticalAlignment")
                   ELSE <<>>
        paint == base @@ common @@ solid @@ gradient @@ image @@ pattern
        fallback == IF /\ ~Truthy(Get(paint, "color"))
                       /\ ~Truthy(Get(paint, "gradientStops"))
                       /\ ~Truthy(Get(paint, "imageRef"))
                    THEN (IF Truthy(Get(v, "hex"))
                          THEN "fallbackHex" :> Get(v, "hex") ELSE <<>>)
                         @@ (IF Truthy(Get(v, "css"))
                             THEN "fallbackCss" :> Get(v, "css") ELSE <<>>)
                    ELSE <<>>
    IN  paint @@ fallback

KeepPaintAny(paint) == TRUE

KeepPaintWithColor(paint) ==
    \/ Truthy(Get(paint, "color"))
    \/ Truthy(Get(paint, "gradientStops"))
    \/ Truthy(Get(paint, "imageRef"))
    \/ Truthy(Get(paint, "fallbackHex"))
    \/ Truthy(Get(paint, "fallbackCss"))

\* the filter over the paints
KeepPaint(paint) ==
    \/ paint.type # JStr("unknown")
    \/ Truthy(Get(paint, "fallbackHex"))
    \/ Truthy(Get(paint, "fallbackCss"))

\* style.name on a null entry, or startsWith on a type that is no string
PaintThrows(style) ==
    \/ IsNullish(style)
    \/ LET type == ValueOf(style, "type")
       IN  ~IsNullish(type) /\ "str" \notin DOMAIN type

\* the typography token built for one text style
Typography(style) ==
    [name |-> Get(style, "name"),
     fontSize |-> OrElse(ValueOf(style, "fontSize"), JNum(16)),
     fontFamily |-> OrElse(ValueOf(style, "fontFamily"), JStr("system")),
     fontWeight |-> OrElse(ValueOf(style, "fontWeight"), JStr("normal")),
     lineHeight |-> OrElse(ValueOf(style, "lineHeight"), JStr("normal")),
     letterSpacing |-> OrElse(ValueOf(style, "letterSpacing"), JStr("normal"))]

TypographyThrows(style) == IsNullish(style)

TypographyOfStylesWithValues(list) ==
    LET HasValues(style) == Get(style, "values") # Undef
        kept == SelectSeq(list, HasValues)
    IN  [k \in 1..Len(kept) |-> Typography(kept[k])]

\* the typography step: a map without a filter
TypographyOfAll(list) == [k \in 1..Len(list) |-> Typography(list[k])]

\* the style carries a non-empty array of effects
HasEffects(style) ==
    LET effects == ValueOf(style, "effects")
    IN  Truthy(effects) /\ IsArray(effects) /\ Len(effects.list) # 0

AllEffectsFromOne(list) == Len(list) >= 1

\* allEffects is carried when the style stacks several effects
AllEffectsIncluded(list) == Len(list) > 1

\* the effect built for one effect style, null when it carries no effects
Effect(style) ==
    IF ~HasEffects(style) THEN Null
    ELSE
    LET effects == ValueOf(style, "effects")
        effectData == effects.list[1]
        type == Get(effectData, "type")
        base == ("name" :> Get(style, "name"))
                @@ ("type" :> OrElse(type, JStr("unknown")))
        common == CopyIfDefined(effectData, "radius")
                  @@ CopyIfTruthy(effectData, "blendMode")
                  @@ CopyIfDefined(effectData, "visible")
        shadow == IF type = JStr("INNER_SHADOW") \/ type = JStr("DROP_SHADOW")
                  THEN CopyIfTruthy(effectData, "color")
                       @@ CopyIfTruthy(effectData, "offset")
                       @@ CopyIfDefined(effectData, "spread")
                       @@ CopyIfDefined(effectData, "showShadowBehindNode")
                  ELSE <<>>
        blur == IF type = JStr("LAYER_BLUR") \/ type = JStr("BACKGROUND_BLUR")
                THEN CopyIfTruthy(effectData, "blurType")
                     @@ CopyIfDefined(effectData, "startRadius")
                     @@ CopyIfTruthy(effectData, "startOffset")
                     @@ CopyIfTruthy(effectData, "endOffset")
                ELSE <<>>
        noise == IF type = JStr("NOISE")
                 THEN CopyIfDefined(effectData, "noiseSize")
                      @@ CopyIfTruthy(effectData, "noiseType")
                      @@ CopyIfDefined(effectData, "density")
                      @@ CopyIfTruthy(effectData, "secondaryColor")
                      @@ CopyIfDefined(effectData, "opacity")
                 ELSE <<>>
        texture == IF type = JStr("TEXTURE")
                   THEN CopyIfDefined(effectData, "noiseSize")
                        @@ CopyIfDefined(effectData, "clipToShape")
                   ELSE <<>>
        all == IF AllEffectsIncluded(effects.list)
               THEN "allEffects" :> effects ELSE <<>>
    IN  base @@ common @@ shadow @@ blur @@ noise @@ texture @@ all

KeepEffectNotNull(effect) == effect # Null

\* the filter over the effects
KeepEffect(effect) == effect # Null /\ effect.type # JStr("unknown")

\* style.values on a null entry, or effectData.type on a null first effect
EffectThrows(style) ==
    \/ IsNullish(style)
    \/ HasEffects(style) /\ IsNullish(ValueOf(style, "effects").list[1])

\* style.values?.grids && style.values.grids.length > 0
HasGrids(style) ==
    LET grids == ValueOf(style, "grids")
    IN  Truthy(grids) /\ IsArray(grids) /\ Len(grids.list) > 0

\* the grid built for one grid style
Grid(style) ==
    LET base == ("name" :> Get(style, "name")) @@ ("type" :> JStr("grid"))
        gridData == ValueOf(style, "grids").list[1]
    IN  IF HasGrids(style)
        THEN base @@ CopyIfTruthy(gridData, "pattern")
                  @@ CopyIfDefined(gridData, "sectionSize")
                  @@ CopyIfDefined(gridData, "gutterSize")
                  @@ CopyIfDefined(gridData, "offset")
                  @@ CopyIfDefined(gridData, "count")
                  @@ CopyIfTruthy(gridData, "alignment")
                  @@ CopyIfTruthy(gridData, "color")
        ELSE base

KeepGridAlways(grid) == TRUE

\* the filter over the grids
KeepGrid(grid) == Truthy(Get(grid, "pattern")) \/ Get(grid, "sectionSize") # Undef

GridThrows(style) ==
    \/ IsNullish(style)
    \/ HasGrids(style) /\ IsNullish(ValueOf(style, "grids").list[1])

\* styles.styles?.kind
StyleList(raw, kind) == Get(Get(raw, "styles"), kind)

\* .map on a truthy value that is no array
NotMappable(list) == Truthy(list) /\ ~IsArray(list)

\* the entries a map callback is called with
Entries(list) == IF IsArray(list) THEN list.list ELSE <<>>

\* the length of JSON.stringify(v)
RECURSIVE JsonLen(_)
RECURSIVE JsonLenItems(_)
RECURSIVE JsonLenProps(_, _)
JsonLenItems(seq) ==
    IF seq = <<>> THEN 0
    ELSE JsonLen(Head(seq)) + (IF Len(seq) > 1 THEN 1 ELSE 0) + JsonLenItems(Tail(seq))
JsonLenProps(obj, names) ==
    IF names = {} THEN 0
    ELSE LET f == CHOOSE n \in names : TRUE
         IN  Len(f) + 3 + JsonLen(obj[f]) + (IF names = {f} THEN 0 ELSE 1)
             + JsonLenProps(obj, names \ {f})
JsonLen(v) ==
    CASE "str" \in DOMAIN v -> Len(v.str) + 2
      [] "num" \in DOMAIN v -> Digits(v.num)
      [] "bool" \in DOMAIN v -> IF v.bool THEN 4 ELSE 5
      [] "null" \in DOMAIN v -> 4
      [] "opaque" \in DOMAIN v -> v.len
      [] "list" \in DOMAIN v -> 2 + JsonLenItems(v.list)
      [] OTHER -> 2 + JsonLenProps(v, {f \in DOMAIN v : v[f] # Undef})

SummaryBeforeFilter(set, raw) ==
    LET Count(kind) == IF IsArray(StyleList(raw, kind))
                       THEN Len(StyleList(raw, kind).list) ELSE 0
    IN  [totalColors |-> Count("fill"), totalTypography |-> Count("text"),
         totalEffects |-> Count("effect"), totalSpacing |-> Count("grid"),
         originalFileSize |-> JsonLen(raw)]

\* the summary stats of a set
Summary(set, raw) ==
    [totalColors |-> Len(set.colors), totalTypography |-> Len(set.typography),
     totalEffects |-> Len(set.effects), totalSpacing |-> Len(set.spacing),
     originalFileSize |-> JsonLen(raw)]

\* the call throws a TypeError
compressStylesForAIThrows(raw) ==
    LET fill == StyleList(raw, "fill")
        text == StyleList(raw, "text")
        effect == StyleList(raw, "effect")
        grid == StyleList(raw, "grid")
    IN  \/ NotMappable(fill)
        \/ \E k \in 1..Len(Entries(fill)) : PaintThrows(Entries(fill)[k])
        \/ NotMappable(text)
        \/ \E k \in 1..Len(Entries(text)) : TypographyThrows(Entries(text)[k])
        \/ NotMappable(effect)
        \/ \E k \in 1..Len(Entries(effect)) : EffectThrows(Entries(effect)[k])
        \/ NotMappable(grid)
        \/ \E k \in 1..Len(Entries(grid)) : GridThrows(Entries(grid)[k])

\* the set the call returns when it does not throw
compressStylesForAI(raw) ==
    LET fill == Entries(StyleList(raw, "fill"))
        text == Entries(StyleList(raw, "text"))
        effect == Entries(StyleList(raw, "effect"))
        grid == Entries(StyleList(raw, "grid"))
        set == [colors |-> SelectSeq([k \in 1..Len(fill) |-> Paint(fill[k])], KeepPaint),
                typography |-> TypographyOfAll(text),
                effects |-> SelectSeq([k \in 1..Len(effect) |-> Effect(effect[k])],
                                      KeepEffect),
                spacing |-> SelectSeq([k \in 1..Len(grid) |-> Grid(grid[k])], KeepGrid)]
    IN  [colors |-> set.colors, typography |-> set.typography,
         effects |-> set.effects, spacing |-> set.spacing,
         summary |-> Summary(set, raw)]

\* sample style entries, one name per sample
Style(name, values) == [name |-> JStr(name), values |-> values]

FillSamples ==
    << Style("Primary Blue", [type |-> JStr("SOLID"), hex |-> JStr("#007AFF"),
                              opacity |-> JNum(1)]),
       Style("Ink", [type |-> JStr("SOLID"), color |-> JObj("rgba", 29),
                     css |-> JStr("rgb(0,0,0)")]),
       Style("Bare", [type |-> JStr("SOLID")]),
       Style("Sunset", [type |-> JStr("GRADIENT_LINEAR"),
                        gradientStops |-> JObj("stops", 64), hex |-> JStr("#FF0000")]),
       Style("Hero", [type |-> JStr("IMAGE"), imageRef |-> JStr("img1"),
                      scaleMode |-> JStr("FILL")]),
       Style("Dots", [type |-> JStr("PATTERN"), tileType |-> JStr("RECTANGULAR")]),
       Style("Ghost", [type |-> JStr("unknown")]),
       Style("Legacy", [type |-> JStr("unknown"), hex |-> JStr("#111111")]),
       [name |-> JStr("Empty")],
       Style("CssOnly", [css |-> JStr("red")]),
       Null,
       Style("Numeric", [type |-> JNum(5)]) >>

TextSamples ==
    << Style("Heading", [fontSize |-> JNum(32), fontFamily |-> JStr("Inter"),
                         fontWeight |-> JNum(700), lineHeight |-> JNum(40),
                         letterSpacing |-> JNum(0)]),
       [name |-> JStr("Plain")],
       Null,
       Style("Body", [fontSize |-> JNum(0), fontFamily |-> JStr("")]) >>

DropShadow ==
    [type |-> JStr("DROP_SHADOW"), radius |-> JNum(4), color |-> JObj("rgba", 29),
     offset |-> JObj("xy", 13), spread |-> JNum(0), visible |-> JBool(TRUE)]

InnerShadow ==
    [type |-> JStr("INNER_SHADOW"), radius |-> JNum(9), spread |-> JNum(1),
     blendMode |-> JStr("MULTIPLY")]

EffectSamples ==
    << Style("Card", [effects |-> JList(<<DropShadow>>)]),
       Style("Stack", [effects |-> JList(<<[type |-> JStr("DROP_SHADOW"),
                                            radius |-> JNum(4)], InnerShadow>>)]),
       Style("None", [effects |-> JList(<<>>)]),
       [name |-> JStr("Bodiless")],
       Style("Keyed", [effects |-> JObj("effectsByName", 10)]),
       Style("Untyped", [effects |-> JList(<<[radius |-> JNum(2)]>>)]),
       Style("NullFirst", [effects |-> JList(<<Null>>)]),
       Null,
       Style("Blur", [effects |-> JList(<<[type |-> JStr("LAYER_BLUR"), radius |-> JNum(8),
                                           blurType |-> JStr("NORMAL"),
                                           spread |-> JNum(3)]>>)]),
       Style("Grain", [effects |-> JList(<<[type |-> JStr("NOISE"), noiseSize |-> JNum(1),
                                            density |-> JNum(0)]>>)]),
       Style("Mixed", [effects |-> JList(<<[type |-> JStr("unknown")], DropShadow>>)]) >>

GridSamples ==
    << Style("Columns", [grids |-> JList(<<[pattern |-> JStr("COLUMNS"),
                                            sectionSize |-> JNum(8),
                                            gutterSize |-> JNum(16), count |-> JNum(12),
                                            alignment |-> JStr("STRETCH")]>>)]),
       Style("NoGrids", [grids |-> JList(<<>>)]),
       [name |-> JStr("Loose")],
       Style("Counted", [grids |-> JList(<<[count |-> JNum(4)]>>)]),
       Style("Zero", [grids |-> JList(<<[sectionSize |-> JNum(0)]>>)]),
       Style("NullGrid", [grids |-> JList(<<Null>>)]),
       Null,
       Style("Second", [grids |-> JList(<<[count |-> JNum(2)],
                                          [pattern |-> JStr("ROWS"),
                                           sectionSize |-> JNum(4)]>>)]) >>

Kinds == <<"fill", "text", "effect", "grid">>

Samples(kind) ==
    CASE kind = "fill" -> FillSamples
      [] kind = "text" -> TextSamples
      [] kind = "effect" -> EffectSamples
      [] kind = "grid" -> GridSamples

\* entries as (kind index, sample index), grouped in kind order
Picks == UNION {{<<k, n>> : n \in 1..Len(Samples(Kinds[k]))} : k \in 1..4}

PickLists ==
    {f \in SeqsUpTo(Picks, MaxStyles) :
        \A a \in 1..Len(f) : \A b \in a..Len(f) : f[a][1] <= f[b][1]}

\* the shape of a collection: a kind without entries is absent or an empty array,
\* and at most one kind (0 for none) holds a keyed object instead of an array
Shapes ==
    {[empty |-> e, keyed |-> 0] : e \in {"absent", "array"}}
        \cup {[empty |-> "absent", keyed |-> k] : k \in 1..4}

RECURSIVE EntriesOf(_, _)
EntriesOf(f, k) ==
    IF f = <<>> THEN <<>>
    ELSE IF Head(f)[1] = k
         THEN <<Samples(Kinds[k])[Head(f)[2]]>> \o EntriesOf(Tail(f), k)
         ELSE EntriesOf(Tail(f), k)

ListOf(f, shape, k) ==
    CASE shape.keyed = k -> Kinds[k] :> JObj("stylesById", 2)
      [] shape.keyed # k /\ EntriesOf(f, k) = <<>> /\ shape.empty = "absent" -> <<>>
      [] OTHER -> Kinds[k] :> JList(EntriesOf(f, k))

RawStyles(f, shape) ==
    [styles |-> ListOf(f, shape, 1) @@ ListOf(f, shape, 2)
                @@ ListOf(f, shape, 3) @@ ListOf(f, shape, 4)]

RawInputs == {RawStyles(f, shape) : f \in PickLists, shape \in Shapes}

NormalizeInit ==
    /\ pc = "idle"
    /\ styles \in RawInputs
    /\ compressed = CompressedOf(<<>>, 980)
    /\ maxTokens = 0
    /\ format = "css"
    /\ planned = FALSE
    /\ maxTokensPerChunk = 0
    /\ chunks = <<>>
    /\ i = 0
    /\ inflight = {}
    /\ requests = <<>>
    /\ responses = <<>>
    /\ results = <<>>
    /\ raised = NoError
    /\ thrown = NoError
    /\ output = NoOutput
    /\ combinerCalls = 0
    /\ log = <<>>
    /\ failure = NoError
    /\ offered = 0
    /\ answer = "none"
    /\ promptRuns = 0
    /\ propagated = NoError
    /\ attempt = 0
    /\ retries = 0
    /\ calls = <<>>
    /\ waits = <<>>
    /\ options = NoOptions
    /\ delay = 0
    /\ lastError = NoError
    /\ heap = <<>>
    /\ made = <<>>
    /\ frame = NoCall

CompressReturns ==
    /\ pc = "idle"
    /\ ~compressStylesForAIThrows(styles)
    /\ pc' = "compressed"
    /\ compressed' = compressStylesForAI(styles)
    /\ UNCHANGED <<styles, maxTokens, format, planned, maxTokensPerChunk, chunks, i,
                   inflight, requests, responses, results, raised, thrown, output,
                   combinerCalls,
                   log,
                   failure,
                   offered,
                   answer,
                   promptRuns,
                   propagated,
                   attempt,
                   retries,
                   calls,
                   waits,
                   options,
                   delay,
                   lastError,
                   heap,
                   made,
                   frame>>

CompressThrows ==
    /\ pc = "idle"
    /\ compressStylesForAIThrows(styles)
    /\ pc' = "compressThrew"
    /\ thrown' = "TypeError"
    /\ UNCHANGED <<styles, compressed, maxTokens, format, planned, maxTokensPerChunk,
                   chunks, i, inflight, requests, responses, results, raised, output,
                   combinerCalls,
                   log,
                   failure,
                   offered,
                   answer,
                   promptRuns,
                   propagated,
                   attempt,
                   retries,
                   calls,
                   waits,
                   options,
                   delay,
                   lastError,
                   heap,
                   made,
                   frame>>

NormalizeNext == CompressReturns \/ CompressThrows

NormalizeSpec == NormalizeInit /\ [][NormalizeNext]_vars

(***************************************************************************)
(* generateWithAI properties.                                              *)
(***************************************************************************)
\* generation was tried: a provider was configured and a format dispatched
GenerationTried ==
    /\ pc # "ai"
    /\ \A e \in 1..Len(log) : log[e].msg # "No AI providers configured"

\* C23: for json exactly one request is issued, a schema-constrained structured
\* one over the whole compressed set, and never a text request, whatever the
\* estimated size of the set; the chunked text path is only taken for other
\* formats.
C23_JsonOneStructuredRequest ==
    /\ format = "json" =>
          /\ ~planned
          /\ Len(requests) <= 1
          /\ GenerationTried => Len(requests) = 1
          /\ \A r \in 1..Len(requests) :
                /\ RequestKind(requests[r]) = "object"
                /\ requests[r].chunk = compressed
    /\ planned => format # "json"
    /\ \A r \in 1..Len(requests) :
          RequestKind(requests[r]) = "text" <=> format # "json"

\* a set estimated over the limit went through json generation with one request
C23_Witness ==
    /\ format = "json"
    /\ shouldChunkStyles(compressed, maxTokens)
    /\ ItemCount(compressed) = 2
    /\ pc = "returned"
    /\ failure = NoError
    /\ Len(requests) = 1
    /\ output # NoOutput

\* generateWithAI has returned or rejected
Ended == pc \in {"returned", "rejected"}

Successful(call) == call.kind = "response" /\ Ok(call.status)

\* C28: for retries >= 1 a call of fetchFromFigma issues at most `retries`
\* requests, one per attempt, reaches the loop test only with an attempt left
\* (so it never falls out of the loop returning undefined), returns only the
\* parsed body of a successful response, and issues no request after a
\* successful one.
C28_BoundedRequestsNoFallOut ==
    retries >= 1 =>
        /\ Len(calls) <= retries
        /\ \A k \in 1..Len(calls) : calls[k].attempt = k
        /\ pc \in {"start", "loop", "fetching", "waiting", "returned", "threw"}
        /\ pc = "loop" => attempt <= retries
        /\ pc = "returned" =>
              /\ calls # <<>>
              /\ Successful(calls[Len(calls)])
              /\ JSONparse(calls[Len(calls)].body).ok
              /\ output = JSONparse(calls[Len(calls)].body).obj
              /\ thrown = NoError
        /\ pc = "threw" => (thrown # NoError /\ output = NoOutput)
        /\ \A k \in 1..Len(calls) :
              Successful(calls[k]) => (k = Len(calls) /\ pc \in {"returned", "threw"})

\* the third of three attempts succeeded after two retried ones
C28_Witness ==
    /\ retries = 3
    /\ Len(calls) = 3
    /\ pc = "returned"
    /\ Len(waits) = 2

\* the outcomes after which the loop goes round again
Retried(call) ==
    \/ call.kind = "rejected" /\ call.body = FetchFailed
    \/ call.kind = "response" /\ (call.status = 429 \/ call.status >= 500)

ClientError(call) ==
    call.kind = "response" /\ call.status >= 400 /\ call.status <= 499 /\ call.status # 429

\* C29: a further request is issued, and a wait is made, only after a 429
\* response, a 5xx response or a network failure of an attempt before the last;
\* a 401, 403, 404 or other non-429 4xx response is the last request and ends
\* the call by a throw; a 429 or 5xx on the last attempt throws without a wait.
C29_RetryOnlyTransient ==
    /\ \A k \in 1..(Len(calls) - 1) : Retried(calls[k]) /\ calls[k].attempt < retries
    /\ pc \in {"waiting", "loop"} /\ calls # <<>> =>
          /\ Retried(calls[Len(calls)])
          /\ calls[Len(calls)].attempt < retries
    /\ Len(waits) = (IF pc \in {"waiting", "loop"} THEN Len(calls) ELSE Len(calls) - 1)
          \/ calls = <<>>
    /\ \A k \in 1..Len(waits) :
          waits[k] = (CASE calls[k].kind = "rejected" -> 3000
                        [] calls[k].status = 429 -> 60000
                        [] OTHER -> 5000)
    /\ \A k \in 1..Len(calls) :
          ClientError(calls[k]) =>
              /\ k = Len(calls)
              /\ pc = "threw"
              /\ Len(waits) = k - 1
    /\ \A k \in 1..Len(calls) :
          (Retried(calls[k]) /\ calls[k].kind = "response" /\ calls[k].attempt = retries) =>
              /\ pc = "threw"
              /\ thrown \in {RateLimited, ServerError, Terminated}
              /\ Len(waits) = k - 1

\* a 429 and a network failure were retried, then a 500 on the last attempt threw
C29_Witness ==
    /\ retries = 3
    /\ Len(calls) = 3
    /\ calls[1].status = 429
    /\ calls[2].kind = "rejected"
    /\ calls[3].status = 500
    /\ waits = <<60000, 3000>>
    /\ pc = "threw"
    /\ thrown = ServerError

(***************************************************************************)
(* retry properties.                                                       *)
(***************************************************************************)
\* C30: retry invokes fn at most maxRetries + 1 times; every invocation but the
\* last failed with an error shouldRetry accepts; when it gives up it throws
\* the error of its last invocation; the first wait is baseDelay, each later
\* wait is the one before multiplied by backoffFactor and cut to maxDelay, so
\* no wait after the first exceeds maxDelay.
C30_BoundedBackoff ==
    /\ Len(calls) <= Opt(options).maxRetries + 1
    /\ \A k \in 1..Len(calls) : calls[k].attempt = k - 1
    /\ \A k \in 1..(Len(calls) - 1) :
          /\ calls[k].kind = "rejected"
          /\ ShouldRetry(options, calls[k].body)
    /\ (pc = "threw" /\ calls # <<>>) =>
          /\ calls[Len(calls)].kind = "rejected"
          /\ thrown = calls[Len(calls)].body
          /\ \/ Len(calls) = Opt(options).maxRetries + 1
             \/ ~ShouldRetry(options, thrown)
    /\ pc = "returned" =>
          /\ calls[Len(calls)].kind = "resolved"
          /\ output = calls[Len(calls)].body
    /\ Len(waits) = (IF pc \in {"backoff", "test"} /\ calls # <<>>
                     THEN Len(calls) ELSE Len(calls) - 1)
          \/ calls = <<>>
    /\ \A k \in 1..Len(waits) :
          /\ k = 1 => waits[k] = Opt(options).baseDelay
          /\ k > 1 =>
                /\ waits[k] = Min(waits[k - 1] * Opt(options).backoffFactor,
                                  Opt(options).maxDelay)
                /\ waits[k] <= Opt(options).maxDelay

\* three invocations failed; the second wait was cut to maxDelay
C30_Witness ==
    /\ options # NoOptions
    /\ Opt(options).maxRetries = 2
    /\ Len(calls) = 3
    /\ waits = <<1000, 1500>>
    /\ pc = "threw"
    /\ thrown = "ETIMEDOUT"
    /\ calls[1].body = "ECONNRESET"

(***************************************************************************)
(* Store properties.                                                       *)
(***************************************************************************)
\* a chunkStyles call split the set
SplitInStore ==
    \E k \in 1..Len(made) :
        /\ made[k].call = "chunkStyles"
        /\ Length(heap, made[k].result) > 1

\* C21: at every point of any sequence of compressStylesForAI, chunkStyles and
\* prompt construction calls on one raw collection, every cell of the raw
\* collection, the effect lists that tokens share through allEffects included,
\* holds what it held before the first call.
C21_RawInputUnchanged ==
    /\ Len(heap) >= styles.ref
    /\ SubSeq(heap, 1, styles.ref) = RawStore(styles.kinds)

\* a normalize call and a plan call that split the set were made, and a token of
\* the result shares the effect list of the raw collection through allEffects
C21_Witness ==
    /\ pc = "idle"
    /\ {made[k].call : k \in 1..Len(made)} = {"compressStylesForAI", "chunkStyles"}
    /\ SplitInStore
    /\ \E a \in (styles.ref + 1)..Len(heap) :
          /\ Load(heap, a, "allEffects").ref \in 1..styles.ref
          /\ heap[Load(heap, a, "allEffects").ref].array

(***************************************************************************)
(* Normalizer properties.                                                  *)
(***************************************************************************)
Returned == pc = "compressed"

\* the raw entries of a kind, as the call that returned has read them
RawList(kind) ==
    IF IsArray(StyleList(styles, kind)) THEN StyleList(styles, kind).list ELSE <<>>

Names(seq) == [k \in 1..Len(seq) |-> Get(seq[k], "name")]

Colorless(paint) ==
    /\ ~Truthy(Get(paint, "color"))
    /\ ~Truthy(Get(paint, "gradientStops"))
    /\ ~Truthy(Get(paint, "imageRef"))
    /\ ~Truthy(Get(paint, "fallbackHex"))
    /\ ~Truthy(Get(paint, "fallbackCss"))

\* C13 as stated: no color token of the result lacks all of color, gradientStops
\* and imageRef while also lacking fallbackHex and fallbackCss, whatever its
\* paint type.
C13_ColorlessPaintDropped ==
    Returned => \A k \in 1..Len(compressed.colors) : ~Colorless(compressed.colors[k])

PaintKnownOrFallback(style) ==
    \/ Truthy(ValueOf(style, "type")) /\ ValueOf(style, "type") # JStr("unknown")
    \/ Truthy(ValueOf(style, "hex"))
    \/ Truthy(ValueOf(style, "css"))

\* C13 amended: a fill style is dropped exactly when its paint type resolves to
\* "unknown" and it has neither a hex nor a css value; the color tokens are the
\* other fill styles in input order, so a fill style of a known paint type is kept
\* even with no color representation and no fallback, and a token of type
\* "unknown" always carries a fallback.
C13_UnknownPaintWithoutFallbackOnlyDropped ==
    Returned =>
        /\ Names(compressed.colors) = Names(SelectSeq(RawList("fill"), PaintKnownOrFallback))
        /\ \A k \in 1..Len(compressed.colors) :
              compressed.colors[k].type = JStr("unknown")
                  => ~Colorless(compressed.colors[k])

\* a colorless token of a known paint type was kept while another style was dropped
C13_Witness ==
    /\ Returned
    /\ Len(RawList("fill")) = 2
    /\ Len(compressed.colors) = 1
    /\ Colorless(compressed.colors[1])

\* C14: a raw fill style whose paint type is "unknown" or absent and that has
\* neither a hex nor a css value gets no color token.
C14_UnknownPaintNoToken ==
    Returned =>
        \A k \in 1..Len(RawList("fill")) :
            LET style == RawList("fill")[k]
            IN  (/\ ValueOf(style, "type") \in {Undef, JStr("unknown")}
                 /\ ValueOf(style, "hex") = Undef
                 /\ ValueOf(style, "css") = Undef)
                    => \A j \in 1..Len(compressed.colors) :
                          compressed.colors[j].name # Get(style, "name")

\* a style of unknown type without fallback was dropped next to one with a fallback
C14_Witness ==
    /\ Returned
    /\ Len(RawList("fill")) = 2
    /\ ValueOf(RawList("fill")[1], "type") = JStr("unknown")
    /\ ValueOf(RawList("fill")[1], "hex") = Undef
    /\ ValueOf(RawList("fill")[2], "type") = JStr("unknown")
    /\ Len(compressed.colors) = 1
    /\ compressed.colors[1].name = Get(RawList("fill")[2], "name")

\* C15: the typography array has exactly one token per raw text style, in the
\* same order, even for a text style with no values at all.
C15_TypographyNeverFiltered ==
    Returned =>
        /\ Len(compressed.typography) = Len(RawList("text"))
        /\ Names(compressed.typography) = Names(RawList("text"))

\* a text style without values kept its place before a fully specified one
C15_Witness ==
    /\ Returned
    /\ Len(RawList("text")) = 2
    /\ Get(RawList("text")[1], "values") = Undef
    /\ Get(RawList("text")[2], "values") # Undef
    /\ Len(compressed.typography) = 2
    /\ compressed.typography[1].fontSize = JNum(16)
    /\ compressed.typography[2].fontSize = JNum(32)

EffectEmitted(style) ==
    LET effects == ValueOf(style, "effects")
    IN  /\ IsArray(effects)
        /\ Len(effects.list) > 0
        /\ Truthy(Get(effects.list[1], "type"))
        /\ Get(effects.list[1], "type") # JStr("unknown")

\* C16: an effect token is emitted for an effect style exactly when its
\* values.effects is a non-empty array whose first effect has a type that resolves
\* to something other than "unknown"; so there are at most as many effect tokens
\* as effect styles and none has type "unknown".
C16_EffectEmittedIffTypedFirst ==
    Returned =>
        /\ Names(compressed.effects) = Names(SelectSeq(RawList("effect"), EffectEmitted))
        /\ Len(compressed.effects) <= Len(RawList("effect"))
        /\ \A k \in 1..Len(compressed.effects) :
              compressed.effects[k].type # JStr("unknown")

\* a style whose first effect has no usable type was dropped, the next one kept
C16_Witness ==
    /\ Returned
    /\ Len(RawList("effect")) = 2
    /\ HasEffects(RawList("effect")[1])
    /\ ~EffectEmitted(RawList("effect")[1])
    /\ Len(compressed.effects) = 1
    /\ compressed.effects[1].name = Get(RawList("effect")[2], "name")

\* C17: every effect token takes its type and fields from the first element of
\* its style's effect list only, and carries allEffects, equal to the full
\* original list, exactly when that list has more than one element.
C17_FirstEffectOnly ==
    Returned =>
        LET kept == SelectSeq(RawList("effect"), EffectEmitted)
        IN  /\ Len(compressed.effects) = Len(kept)
            /\ \A k \in 1..Len(compressed.effects) :
                  LET token == compressed.effects[k]
                      effects == ValueOf(kept[k], "effects")
                      first == effects.list[1]
                  IN  /\ token.type = first.type
                      /\ \A f \in DOMAIN token \ {"name", "allEffects"} :
                            token[f] = Get(first, f)
                      /\ "allEffects" \in DOMAIN token <=> Len(effects.list) > 1
                      /\ "allEffects" \in DOMAIN token => token.allEffects = effects

\* a style with two stacked effects: the token has the first one's fields, not the
\* second one's spread, and the whole list under allEffects
C17_Witness ==
    /\ Returned
    /\ Len(compressed.effects) = 2
    /\ "allEffects" \in DOMAIN compressed.effects[1]
    /\ Len(compressed.effects[1].allEffects.list) = 2
    /\ "spread" \in DOMAIN compressed.effects[1].allEffects.list[2]
    /\ "spread" \notin DOMAIN compressed.effects[1]
    /\ "allEffects" \notin DOMAIN compressed.effects[2]

GridEmitted(style) ==
    LET grids == ValueOf(style, "grids")
    IN  /\ IsArray(grids)
        /\ Len(grids.list) > 0
        /\ \/ Truthy(Get(grids.list[1], "pattern"))
           \/ Get(grids.list[1], "sectionSize") # Undef

\* C18: every spacing token has a pattern or a defined sectionSize, taken from the
\* first grid of its style; a grid style with no grids, or whose first grid has
\* neither, yields no spacing token.
C18_SpacingFromFirstGrid ==
    Returned =>
        LET kept == SelectSeq(RawList("grid"), GridEmitted)
        IN  /\ Names(compressed.spacing) = Names(kept)
            /\ \A k \in 1..Len(compressed.spacing) :
                  LET token == compressed.spacing[k]
                      first == ValueOf(kept[k], "grids").list[1]
                  IN  /\ Truthy(Get(token, "pattern")) \/ Get(token, "sectionSize") # Undef
                      /\ Truthy(Get(token, "pattern"))
                            => token.pattern = Get(first, "pattern")
                      /\ Get(token, "sectionSize") = Get(first, "sectionSize")

\* a style whose first grid has neither field was dropped although its second grid
\* has both, and a style with sectionSize 0 was kept
C18_Witness ==
    /\ Returned
    /\ Len(RawList("grid")) = 2
    /\ HasGrids(RawList("grid")[1])
    /\ Len(ValueOf(RawList("grid")[1], "grids").list) = 2
    /\ Len(compressed.spacing) = 1
    /\ Get(compressed.spacing[1], "sectionSize") = JNum(0)
    /\ "pattern" \notin DOMAIN compressed.spacing[1]

\* C19: the summary's totals are the lengths of the four arrays of the same
\* result, counted after filtering, and originalFileSize is the length of the
\* JSON serialization of the raw input.
C19_SummaryCounts ==
    Returned =>
        /\ compressed.summary.totalColors = Len(compressed.colors)
        /\ compressed.summary.totalTypography = Len(compressed.typography)
        /\ compressed.summary.totalEffects = Len(compressed.effects)
        /\ compressed.summary.totalSpacing = Len(compressed.spacing)
        /\ compressed.summary.originalFileSize = JsonLen(styles)

\* {"styles":{"fill":[{"name":"Ghost","values":{"type":"unknown"}}],"text":[],
\* "effect":[],"grid":[]}} is 98 characters long and its only fill style is
\* filtered out
C19_Witness ==
    /\ Returned
    /\ styles = [styles |-> [fill |-> JList(<<Style("Ghost", [type |-> JStr("unknown")])>>),
                             text |-> JList(<<>>), effect |-> JList(<<>>),
                             grid |-> JList(<<>>)]]
    /\ compressed.summary.totalColors = 0
    /\ compressed.summary.originalFileSize = 98

\* C20: the call never throws, whatever the shape of the raw input.
C20_NeverThrows == pc # "compressThrew"

====
